---- MODULE Spec2Model ----
(***************************************************************************)
(* Sequential-thinking MCP server with Recall persistence.                 *)
(*                                                                         *)
(* The model follows the two TypeScript sources:                           *)
(*   src/unnamed/part_001          the server (SequentialThinkingServer,   *)
(*                                 the CallToolRequestSchema handler,      *)
(*                                 runServer)                              *)
(*   src/src/recall-integration.ts the gateway (RecallIntegration)         *)
(*                                                                         *)
(* Every tool call is a process.  A process runs from one `await` to the   *)
(* next in one step; two processes interleave only at their await points.  *)
(* The remote bucket service answers each request in one step (the remote  *)
(* effect and the delivery of the answer), or the caller's timer fires     *)
(* first.  JavaScript values keep their type tag, so that `typeof` and     *)
(* truthiness tests are computed as the code computes them.                *)
(***************************************************************************)
EXTENDS Integers, Sequences, FiniteSets, TLC

\* ------------------------------------------------------------------ bounds
\* Number of tool calls the transport delivers (each call is one process).
MaxCalls == 2
\* thoughtNumber and totalThoughts of the inputs range over 1..MaxNum.
MaxNum == 2
\* Date.now() ranges over 0..MaxTime.
MaxTime == 1
\* Math.floor(Math.random() * 10000) is scaled down to 0..RandRange-1.
RandRange == 2
\* A remote object that the gateway did not write has 1..MaxLines lines.
MaxLines == 3
\* A batch passed to storeSession directly has 0..MaxBatch thoughts.
MaxBatch == 2
\* objects in the result of a query
MaxListed == 2
\* steps the single client sends after its three-step session
MaxFollowUps == 2
\* The longest log prefix drawn, in characters.
MaxPrefixLen == 3

\* --------------------------------------------------------------- processes
Calls == 1..MaxCalls
\* The constructor's un-awaited initializeRecall() and runServer's awaited
\* initializeBucket() are the two startup processes.
CtorProc == MaxCalls + 1
RunProc == MaxCalls + 2
Procs == 1..(MaxCalls + 2)

\* ------------------------------------------------------- JavaScript values
Undef == [type |-> "undefined", s |-> "", n |-> 0, b |-> FALSE]
Str(x) == [type |-> "string", s |-> x, n |-> 0, b |-> FALSE]
Num(x) == [type |-> "number", s |-> "", n |-> x, b |-> FALSE]
Bool(x) == [type |-> "boolean", s |-> "", n |-> 0, b |-> x]

\* JavaScript truthiness: "", 0, false and undefined are falsy.
Truthy(v) ==
  CASE v.type = "string" -> v.s # ""
    [] v.type = "number" -> v.n # 0
    [] v.type = "boolean" -> v.b
    [] OTHER -> FALSE

\* null bucket address
NullAddr == 0

VARIABLES
  \* SequentialThinkingServer
  thoughtHistory, branches, currentQuery, currentSessionId,
  \* RecallIntegration
  bucketAddress, initialized, currentSessionThoughts,
  \* the environment: Date.now(), the remote bucket service
  clock, remoteBuckets, remoteObjects,
  \* the processes: position, whether the transport is connected, and the
  \* locals of each process that live across an await
  pc, connected, local,
  \* the config module: which of its two versions is built, the key it holds
  \* (privateKeyRaw or secretBuffer; "" when undefined or null), secretLoaded,
  \* and process.env.RECALL_PRIVATE_KEY
  configModule, secret, secretLoaded, envKey,
  \* config.RECALL_LOG_PREFIX (the gateway's logPrefix), as its characters
  logPrefix,
  \* history variables: written, never read by the program
  arrivals, flushedAt, handed, sessionsMinted, createCalls,
  storeCalls, putCalls, dataCallsWhileNull

serverVars == <<thoughtHistory, branches, currentQuery, currentSessionId>>
gatewayVars == <<bucketAddress, initialized, currentSessionThoughts>>
remoteVars == <<remoteBuckets, remoteObjects>>
sessionGhosts == <<arrivals, flushedAt, sessionsMinted>>
storeGhosts == <<handed, storeCalls, putCalls, dataCallsWhileNull>>
initGhosts == <<createCalls>>
ghostVars == <<sessionGhosts, storeGhosts, initGhosts>>
configVars == <<configModule, secret, secretLoaded, envKey, logPrefix>>
vars == <<serverVars, gatewayVars, clock, remoteVars, pc, connected, local, configVars,
          ghostVars>>

\* ------------------------------------------------------------ ThoughtData
\* The arguments object of a tool call.  `query` stands for
\* args._metadata.query || args._meta.query, `key` and `includePortalLinks`
\* are the arguments of getsession and listsessions.
MkArgs(th, tn, tt, ntn, bf, bid, q, k) ==
  [thought |-> th, thoughtNumber |-> tn, totalThoughts |-> tt,
   nextThoughtNeeded |-> ntn, branchFromThought |-> bf, branchId |-> bid,
   query |-> q, key |-> k]

NoArgs == MkArgs(Undef, Undef, Undef, Undef, Undef, Undef, Undef, Undef)

\* Mutant of validateThoughtData: an empty thought is let through.
validateThoughtDataEmptyThought(data) ==
  IF data.thought.type # "string"
    THEN [ok |-> FALSE, error |-> "Invalid thought: must be a string"]
  ELSE IF ~Truthy(data.thoughtNumber) \/ data.thoughtNumber.type # "number"
    THEN [ok |-> FALSE, error |-> "Invalid thoughtNumber: must be a number"]
  ELSE IF ~Truthy(data.totalThoughts) \/ data.totalThoughts.type # "number"
    THEN [ok |-> FALSE, error |-> "Invalid totalThoughts: must be a number"]
  ELSE IF data.nextThoughtNeeded.type # "boolean"
    THEN [ok |-> FALSE, error |-> "Invalid nextThoughtNeeded: must be a boolean"]
  ELSE [ok |-> TRUE, error |-> "",
        value |-> [thought |-> data.thought.s,
                   thoughtNumber |-> data.thoughtNumber.n,
                   totalThoughts |-> data.totalThoughts.n,
                   nextThoughtNeeded |-> data.nextThoughtNeeded.b,
                   branchFromThought |-> data.branchFromThought,
                   branchId |-> data.branchId]]

\* Mutant of validateThoughtData: thoughtNumber is checked before thought.
validateThoughtDataReordered(data) ==
  IF ~Truthy(data.thoughtNumber) \/ data.thoughtNumber.type # "number"
    THEN [ok |-> FALSE, error |-> "Invalid thoughtNumber: must be a number"]
  ELSE IF ~Truthy(data.thought) \/ data.thought.type # "string"
    THEN [ok |-> FALSE, error |-> "Invalid thought: must be a string"]
  ELSE IF ~Truthy(data.totalThoughts) \/ data.totalThoughts.type # "number"
    THEN [ok |-> FALSE, error |-> "Invalid totalThoughts: must be a number"]
  ELSE IF data.nextThoughtNeeded.type # "boolean"
    THEN [ok |-> FALSE, error |-> "Invalid nextThoughtNeeded: must be a boolean"]
  ELSE [ok |-> TRUE, error |-> "",
        value |-> [thought |-> data.thought.s,
                   thoughtNumber |-> data.thoughtNumber.n,
                   totalThoughts |-> data.totalThoughts.n,
                   nextThoughtNeeded |-> data.nextThoughtNeeded.b,
                   branchFromThought |-> data.branchFromThought,
                   branchId |-> data.branchId]]

\* validateThoughtData: the four checks in source order; the optional fields
\* are cast, not checked.  (isRevision, revisesThought and needsMoreThoughts
\* are copied too; nothing but the console output reads them.)
validateThoughtData(data) ==
  IF ~Truthy(data.thought) \/ data.thought.type # "string"
    THEN [ok |-> FALSE, error |-> "Invalid thought: must be a string"]
  ELSE IF ~Truthy(data.thoughtNumber) \/ data.thoughtNumber.type # "number"
    THEN [ok |-> FALSE, error |-> "Invalid thoughtNumber: must be a number"]
  ELSE IF ~Truthy(data.totalThoughts) \/ data.totalThoughts.type # "number"
    THEN [ok |-> FALSE, error |-> "Invalid totalThoughts: must be a number"]
  ELSE IF data.nextThoughtNeeded.type # "boolean"
    THEN [ok |-> FALSE, error |-> "Invalid nextThoughtNeeded: must be a boolean"]
  ELSE [ok |-> TRUE, error |-> "",
        value |-> [thought |-> data.thought.s,
                   thoughtNumber |-> data.thoughtNumber.n,
                   totalThoughts |-> data.totalThoughts.n,
                   nextThoughtNeeded |-> data.nextThoughtNeeded.b,
                   branchFromThought |-> data.branchFromThought,
                   branchId |-> data.branchId]]

\* Mutant of AdjustTotalThoughts: the widening is forgotten.
AdjustTotalThoughtsNever(t) == t

\* processThought, lines 204-206: thoughtNumber > totalThoughts widens totalThoughts.
AdjustTotalThoughts(t) ==
  IF t.thoughtNumber > t.totalThoughts
    THEN [t EXCEPT !.totalThoughts = t.thoughtNumber]
    ELSE t

\* Mutant of PushThought: unshift instead of push.
PushThoughtFront(history, t) == <<t>> \o history

\* processThought, line 209: thoughtHistory.push(validatedInput).
PushThought(history, t) == Append(history, t)

\* Mutant of SetQuery: every query that is given replaces the one that is set.
SetQueryAlways(current, q) == IF Truthy(q) THEN q.s ELSE current

\* processThought, lines 199-201: the query is set when one is given and none is set.
SetQuery(current, q) == IF Truthy(q) /\ current = "" THEN q.s ELSE current

\* Mutant of AddToBranches: a branchId alone puts the thought in the index.
AddToBranchesAnyId(br, t) ==
  IF Truthy(t.branchId)
    THEN LET id == t.branchId.s
             old == IF id \in DOMAIN br THEN br[id] ELSE <<>>
         IN  [b \in (DOMAIN br) \cup {id} |-> IF b = id THEN Append(old, t) ELSE br[b]]
    ELSE br

\* processThought, lines 212-217: the branch index.
AddToBranches(br, t) ==
  IF Truthy(t.branchFromThought) /\ Truthy(t.branchId)
    THEN LET id == t.branchId.s
             old == IF id \in DOMAIN br THEN br[id] ELSE <<>>
         IN  [b \in (DOMAIN br) \cup {id} |-> IF b = id THEN Append(old, t) ELSE br[b]]
    ELSE br

NoBranches == [b \in {} |-> <<>>]

\* The result of storeSession / storeSessionToRecall: undefined, or {txHash?, success, key}.
NoInfo == [defined |-> FALSE, success |-> FALSE, key |-> "", txHash |-> ""]
StoreResult(ok, k, tx) == [defined |-> TRUE, success |-> ok, key |-> k, txHash |-> tx]

\* Mutant of StorageErrorResult: the key is not reported.
StorageErrorResultNoKey(k) == StoreResult(FALSE, "", "")

\* storeSessionJSONL, lines 249-256: the write threw or timed out.
StorageErrorResult(k) == StoreResult(FALSE, k, "")

\* Mutant of StorageOkResult: without a receipt the store is not a success.
StorageOkResultNeedsReceipt(k, tx) == StoreResult(tx # "", k, tx)

\* storeSessionJSONL, lines 262-277: the write was accepted, with or without a receipt.
StorageOkResult(k, tx) == StoreResult(TRUE, k, tx)

\* Mutant of ShouldClearSession: the session is never cleared.
ShouldClearSessionNever(info) == FALSE

\* Mutant of ShouldClearSession: the session is cleared whenever a result came back.
ShouldClearSessionAnyResult(info) == info.defined

\* processThought, lines 234 and 252: the session is cleared when the store
\* returned a result whose success is true.
ShouldClearSession(info) == info.defined /\ info.success

\* storeSessionJSONL, line 211: `${logPrefix}${timestamp}-session.jsonl`; the
\* key is represented by its timestamp segment.
SessionKey(timestamp) == ToString(timestamp)

\* storeSessionToRecall, lines 145-159: a copy of every thought of the
\* history, with the session id attached.
CloneThoughts(history, sid) ==
  [i \in 1..Len(history) |->
     [thought |-> history[i].thought,
      thoughtNumber |-> history[i].thoughtNumber,
      totalThoughts |-> history[i].totalThoughts,
      nextThoughtNeeded |-> history[i].nextThoughtNeeded,
      branchFromThought |-> history[i].branchFromThought,
      branchId |-> history[i].branchId,
      sessionId |-> sid]]

\* Mutant of Placeholder: the 0-based index of the map callback is used.
PlaceholderZeroBased(i) == "Thought " \o ToString(i - 1) \o " (content missing)"

\* The placeholder of storeSession, line 310, and storeSessionJSONL, line 225.
Placeholder(i) == "Thought " \o ToString(i) \o " (content missing)"

\* storeSession, lines 305-326: each incoming thought gets the query; an
\* empty text is replaced by the placeholder of its 1-based position.  (The
\* timestamp and storedAt fields, which embed the time of the call, are left
\* out of the record.)
EnhanceThoughts(thoughts, q) ==
  [i \in 1..Len(thoughts) |->
     [thought |-> IF thoughts[i].thought = "" THEN Placeholder(i) ELSE thoughts[i].thought,
      thoughtNumber |-> thoughts[i].thoughtNumber,
      totalThoughts |-> thoughts[i].totalThoughts,
      nextThoughtNeeded |-> thoughts[i].nextThoughtNeeded,
      branchFromThought |-> thoughts[i].branchFromThought,
      branchId |-> thoughts[i].branchId,
      sessionId |-> thoughts[i].sessionId,
      query |-> q]]

\* storeSessionJSONL, lines 220-229: the thoughts are checked once more.
ValidatedThoughts(thoughts) ==
  [i \in 1..Len(thoughts) |->
     IF thoughts[i].thought = ""
       THEN [thoughts[i] EXCEPT !.thought = Placeholder(i)]
       ELSE thoughts[i]]

\* The content of an object is text; the model keeps it as the sequence of
\* its lines (the pieces between newline characters).  A line is the JSON
\* text of a value (JSON.stringify escapes every newline of the value, so it
\* is one line), or some other text that JSON.parse rejects; the empty line
\* is such a text.
JsonLine(v) == [json |-> TRUE, value |-> <<v>>, text |-> ""]
TextLine(txt) == [json |-> FALSE, value |-> <<>>, text |-> txt]
BlankLine == TextLine("")

\* storeSessionJSONL, line 232: validatedThoughts.map(JSON.stringify).join('\n').
Serialize(thoughts) == [i \in 1..Len(thoughts) |-> JsonLine(thoughts[i])]

\* String.prototype.trim on a content (getSessionObject, line 457): the
\* blank lines at both ends go, with their newline characters; an all-blank
\* content becomes the empty string, which splits into one empty line.
TrimContent(lines) ==
  LET keep == {i \in 1..Len(lines) : lines[i] # BlankLine} IN
  IF keep = {} THEN <<BlankLine>>
  ELSE SubSeq(lines, CHOOSE i \in keep : \A j \in keep : i <= j,
                     CHOOSE i \in keep : \A j \in keep : i >= j)

\* getSessionObject, lines 460-467: JSON.parse of line index + 1, or the
\* error object that names the line.
ParseLine(line, i) ==
  IF line.json
    THEN [parsed |-> TRUE, value |-> line.value, error |-> "", lineContent |-> ""]
    ELSE [parsed |-> FALSE, value |-> <<>>,
          error |-> "Invalid JSON at line " \o ToString(i), lineContent |-> line.text]

\* getSessionObject, lines 457-467: content.trim().split('\n').map(parse).
ParseContent(lines) ==
  LET trimmed == TrimContent(lines) IN
  [i \in 1..Len(trimmed) |-> ParseLine(trimmed[i], i)]

\* getSessionObject, line 450: !content, the content is the empty string.
ContentEmpty(lines) == lines = <<BlankLine>>

\* storeSessionToRecall, line 175: this.currentQuery || 'No query provided'.
QueryOrDefault(q) == IF q = "" THEN "No query provided" ELSE q

\* Mutant of NothingToStore: the guard is dropped.
NothingToStoreNever(thoughts) == FALSE

\* storeSessionJSONL, line 204: currentSessionThoughts.length === 0.
NothingToStore(thoughts) == Len(thoughts) = 0

\* Mutant of NeedsInit: no operation waits for the bucket.
NeedsInitNever == FALSE

\* Mutant of NeedsInit: every operation resolves the bucket again.
NeedsInitAlways == TRUE

\* ensureInitialized, line 154 (and the guard of initializeBucket, line 130).
NeedsInit == ~initialized \/ bucketAddress = NullAddr

\* isInitialized, lines 518-520.
isInitialized == initialized

\* -------------------------------------------------------------- responses
NoResponse == [kind |-> "none", isError |-> FALSE]

\* processThought, lines 305-316, and the catch blocks of listsessions and getsession.
ErrorResponse(msg) == [kind |-> "error", isError |-> TRUE, error |-> msg]

\* The handler's outer catch, lines 707-718.
UnhandledResponse(msg) == [kind |-> "unhandled", isError |-> TRUE, error |-> msg]

\* The handler's fall-through, lines 700-706.
UnknownToolResponse == [kind |-> "unknown", isError |-> TRUE]

\* recallstatus, lines 548-560 and its catch, lines 561-575.
StatusResponse(init, addr) ==
  [kind |-> "status", isError |-> FALSE, initialized |-> init, bucketAddress |-> addr]
StatusErrorResponse(msg) ==
  [kind |-> "statusError", isError |-> FALSE, initialized |-> FALSE, error |-> msg]


\* What a caller of the gateway itself gets: the rejection of the method's
\* promise (an await of ensureInitialized outside any try: lines 290, 383,
\* 444), null (getSessionObject, lines 451 and 486), or the store result.
RaisedResponse(msg) == [kind |-> "raised", isError |-> TRUE, error |-> msg]
NullResponse == [kind |-> "null", isError |-> FALSE]
StoredResponse(info) == [kind |-> "stored", isError |-> FALSE, info |-> info]

\* The public methods of the gateway that the second specification calls directly.
GatewayMethods == {"storeSession", "listAllSessionObjects", "getSessionObject"}

\* getSessionObject returns null (lines 451, 486): its caller gets null, and
\* the handler of getsession throws not found (lines 664-666), which its
\* catch answers (684-697).
NotFound(tool) ==
  IF tool \in GatewayMethods THEN NullResponse ELSE ErrorResponse("Session file not found")

\* processThought, lines 265-273: the part of the response built before the last await.
BuildingResponse(t, br, history) ==
  [kind |-> "building", isError |-> FALSE,
   thoughtNumber |-> t.thoughtNumber, totalThoughts |-> t.totalThoughts,
   nextThoughtNeeded |-> t.nextThoughtNeeded,
   branches |-> DOMAIN br, thoughtHistoryLength |-> Len(history)]

\* processThought, lines 276-304: recallInfo, from the store result when there is one.
RecallInfo(info, next, addr, history) ==
  IF info.defined
    THEN [stored |-> TRUE, success |-> info.success, key |-> info.key,
          txHash |-> info.txHash, viewUrl |-> <<addr, info.key>>]
    ELSE [stored |-> FALSE,
          reason |-> IF next THEN "Session not complete yet - storing in memory only"
                     ELSE "Recall storage pending or unavailable",
          thoughtsInMemory |-> Len(history), isSessionComplete |-> ~next]

ThoughtResponse(partial, info, addr, history) ==
  [kind |-> "thought", isError |-> FALSE,
   thoughtNumber |-> partial.thoughtNumber, totalThoughts |-> partial.totalThoughts,
   nextThoughtNeeded |-> partial.nextThoughtNeeded,
   branches |-> partial.branches, thoughtHistoryLength |-> partial.thoughtHistoryLength,
   recallInfo |-> RecallInfo(info, partial.nextThoughtNeeded, addr, history)]

\* ------------------------------------------------------------------- Init
\* The config module once the RecallIntegration singleton is constructed:
\* its constructor (recall-integration.ts line 51) has taken the key.
DefaultLogPrefix == <<"s", "e", "q", "u", "e", "n", "t", "i", "a", "l", "-">>

ConfigAfterUse ==
  /\ logPrefix = DefaultLogPrefix
  /\ configModule = "sodium"
  /\ secret = ""
  /\ secretLoaded = FALSE
  /\ envKey = "[REDACTED]"

NoLocal ==
  [tool |-> "none", args |-> NoArgs, ret |-> "none", thoughtsToStore |-> <<>>,
   queryInfo |-> "", putKey |-> "", putData |-> <<>>, putOutcome |-> "none",
   receipt |-> "", queryResult |-> <<>>, keyText |-> <<>>, keyTime |-> 0,
   sessionInfo |-> NoInfo, statusBucket |-> NullAddr,
   caught |-> FALSE, response |-> NoResponse]

\* The state when the module has been evaluated: the server object is
\* constructed (line 498: a first session id, and initializeRecall started
\* and not awaited), and runServer (line 738) has called initializeBucket;
\* both calls found the gateway uninitialized and wait for bucketManager().list().
Init ==
  /\ ConfigAfterUse
  /\ thoughtHistory = <<>>
  /\ branches = NoBranches
  /\ currentQuery = ""
  /\ clock = 0
  /\ currentSessionId = <<0, 0>>
  /\ bucketAddress = NullAddr
  /\ initialized = FALSE
  /\ currentSessionThoughts = <<>>
  /\ remoteBuckets = 0
  /\ remoteObjects = [k \in {} |-> <<>>]
  /\ pc = [p \in Procs |-> IF p \in Calls THEN "idle" ELSE "list_wait"]
  /\ connected = FALSE
  /\ local = [p \in Procs |->
                IF p \in Calls THEN NoLocal
                ELSE [NoLocal EXCEPT !.tool = "startup", !.ret = "done"]]
  /\ arrivals = <<>>
  /\ flushedAt = 0
  /\ handed = <<>>
  /\ sessionsMinted = 1
  /\ createCalls = 0
  /\ storeCalls = [c \in Calls |-> 0]
  /\ putCalls = [c \in Calls |-> 0]
  /\ dataCallsWhileNull = FALSE


\* ------------------------------------------------- bucket initialization
\* Where a process goes when the initializeBucket it awaits rejects with msg.
\*   startup      initializeRecall (lines 70-73) and runServer (730-732) log it;
\*   a gateway method called directly: the ensureInitialized of storeSession
\*                (290), listAllSessionObjects (383) and getSessionObject (444)
\*                is outside the method's try, the method rejects;
\*   "p3"         storeSession's ensureInitialized (line 290) is outside its
\*                try: storeSessionToRecall catches and returns undefined (187-191);
\*   "jsonl"      storeSessionJSONL's ensureInitialized (line 202): storeSession
\*                catches and returns undefined (338-341);
\*   "rs2"        the catch of recallstatus (561-575);
\*   "ls2", "ls_query", "gs2", "gs3"  the catch of listsessions / getsession;
\*   "gs_get"     getObjectContent's ensureInitialized (line 495) is caught by
\*                getSessionObject, which returns null (484-487): not found.
InitFailure(p, msg) ==
  LET r == local[p].ret
      l == [local[p] EXCEPT !.caught = TRUE]
  IN
  CASE r = "p3" /\ local[p].tool = "storeSession" ->
         [pc |-> "done", local |-> [l EXCEPT !.response = RaisedResponse(msg)]]
    [] r \in {"ls_query", "gs3"} /\ local[p].tool \in GatewayMethods ->
         [pc |-> "done", local |-> [l EXCEPT !.response = RaisedResponse(msg)]]
    [] r \in {"p3", "jsonl"} ->
         [pc |-> "p5", local |-> [l EXCEPT !.sessionInfo = NoInfo]]
    [] r = "rs2" ->
         [pc |-> "done", local |-> [l EXCEPT !.response = StatusErrorResponse(msg)]]
    [] r \in {"ls2", "ls_query", "gs2", "gs3"} ->
         [pc |-> "done", local |-> [l EXCEPT !.response = ErrorResponse(msg)]]
    [] r = "gs_get" ->
         [pc |-> "done", local |-> [l EXCEPT !.response = NotFound(local[p].tool)]]
    [] OTHER -> [pc |-> "done", local |-> local[p]]

\* runServer connects the transport once its initializeBucket has settled (line 734).
Connect(p) == connected' = (connected \/ p = RunProc)

\* getOrCreateBucket, lines 167-172, then initializeBucket, lines 136-141:
\* list() answers and holds a bucket with the alias; its address is cached.
\* (The remote lists the buckets in creation order: find() takes the first.)
ListFound(p) ==
  /\ pc[p] = "list_wait"
  /\ remoteBuckets >= 1
  /\ bucketAddress' = 1
  /\ initialized' = TRUE
  /\ pc' = [pc EXCEPT ![p] = local[p].ret]
  /\ Connect(p)
  /\ UNCHANGED <<configVars, serverVars, currentSessionThoughts, clock, remoteVars, local, ghostVars>>

\* getOrCreateBucket, lines 173-181: no bucket has the alias, create() is called.
ListNotFound(p) ==
  /\ pc[p] = "list_wait"
  /\ remoteBuckets = 0
  /\ pc' = [pc EXCEPT ![p] = "create_wait"]
  /\ createCalls' = createCalls + 1
  /\ UNCHANGED <<configVars, serverVars, gatewayVars, clock, remoteVars, connected, local,
                 sessionGhosts, storeGhosts>>

\* getOrCreateBucket, lines 183-189, then initializeBucket, lines 136-141.
CreateOk(p) ==
  /\ pc[p] = "create_wait"
  /\ remoteBuckets' = remoteBuckets + 1
  /\ bucketAddress' = remoteBuckets + 1
  /\ initialized' = TRUE
  /\ pc' = [pc EXCEPT ![p] = local[p].ret]
  /\ Connect(p)
  /\ UNCHANGED <<configVars, serverVars, currentSessionThoughts, clock, remoteObjects, local, ghostVars>>

\* Mutant of ListError: initialized is set although the resolution failed.
ListErrorPartialInit(p) ==
  /\ pc[p] = "list_wait"
  /\ initialized' = TRUE
  /\ pc' = [pc EXCEPT ![p] = InitFailure(p, "remote error").pc]
  /\ local' = [local EXCEPT ![p] = InitFailure(p, "remote error").local]
  /\ Connect(p)
  /\ UNCHANGED <<configVars, serverVars, bucketAddress, currentSessionThoughts, clock, remoteVars, ghostVars>>

\* list() rejects: getOrCreateBucket rethrows (190-193), initializeBucket rethrows (143-146).
ListError(p) ==
  /\ pc[p] = "list_wait"
  /\ pc' = [pc EXCEPT ![p] = InitFailure(p, "remote error").pc]
  /\ local' = [local EXCEPT ![p] = InitFailure(p, "remote error").local]
  /\ Connect(p)
  /\ UNCHANGED <<configVars, serverVars, gatewayVars, clock, remoteVars, ghostVars>>

\* create() rejects or answers without a result (184-186).
CreateError(p) ==
  /\ pc[p] = "create_wait"
  /\ pc' = [pc EXCEPT ![p] = InitFailure(p, "Failed to create bucket").pc]
  /\ local' = [local EXCEPT ![p] = InitFailure(p, "Failed to create bucket").local]
  /\ Connect(p)
  /\ UNCHANGED <<configVars, serverVars, gatewayVars, clock, remoteVars, ghostVars>>

\* withTimeout, lines 105-122, around getOrCreateBucket (15 s): the timer wins
\* the race.  The abandoned getOrCreateBucket is not cancelled; whether it
\* still creates a bucket on the remote is the remote's business (lands).
InitTimeout(p) ==
  /\ pc[p] \in {"list_wait", "create_wait"}
  /\ \E lands \in BOOLEAN :
       /\ lands /\ pc[p] = "list_wait" => remoteBuckets = 0
       /\ remoteBuckets' = IF lands THEN remoteBuckets + 1 ELSE remoteBuckets
       /\ createCalls' = IF lands /\ pc[p] = "list_wait" THEN createCalls + 1 ELSE createCalls
  /\ pc' = [pc EXCEPT ![p] = InitFailure(p, "Bucket initialization operation timed out after 15000ms").pc]
  /\ local' = [local EXCEPT ![p] = InitFailure(p, "Bucket initialization operation timed out after 15000ms").local]
  /\ Connect(p)
  /\ UNCHANGED <<configVars, serverVars, gatewayVars, clock, remoteObjects,
                 sessionGhosts, storeGhosts>>


\* ------------------------------------------------------ sequentialthinking
\* The arguments call c may carry.  The text of a valid thought is the call's
\* number, so that every accepted step is told apart from every other.
\* Two kinds of valid thought, each as a last thought or not:
\*   plain     thoughtNumber 1 of MaxNum, no optional argument;
\*   branched  thoughtNumber MaxNum of 1 (above the total), branching from
\*             thought 1 under id "b1", with a query of the call's own.
ValidThoughtArgs(c) ==
  {MkArgs(Str(ToString(c)), Num(1), Num(MaxNum), Bool(ntn), Undef, Undef, Undef, Undef) :
     ntn \in BOOLEAN}
  \cup
  {MkArgs(Str(ToString(c)), Num(MaxNum), Num(1), Bool(ntn), Num(1), Str("b1"),
          Str("q" \o ToString(c)), Undef) : ntn \in BOOLEAN}

\* No thought at all (the handler throws), and an empty one, with a branch
\* and a query (the validator rejects it).
InvalidThoughtArgs(c) ==
  {MkArgs(Undef, Num(1), Num(1), Bool(TRUE), Undef, Undef, Undef, Undef),
   MkArgs(Str(""), Num(1), Num(1), Bool(FALSE), Num(1), Str("b0"), Str("q0"), Undef)}

ThoughtArgs(c) == ValidThoughtArgs(c) \cup InvalidThoughtArgs(c)

\* The transport delivers call c when the server is connected; calls are
\* numbered in the order in which their handlers run.
Arrives(c) ==
  /\ connected
  /\ pc[c] = "idle"
  /\ c > 1 => pc[c - 1] # "idle"

\* The handler, line 523: args.thought.substring throws a TypeError unless
\* args.thought is a string; the outer catch (707-718) answers.
HandlerThrows(a) == a.thought.type # "string"

\* The history variable arrivals keeps every accepted step with the query its
\* call supplied.
Arrival(t, q) ==
  [thought |-> t.thought, thoughtNumber |-> t.thoughtNumber,
   totalThoughts |-> t.totalThoughts, nextThoughtNeeded |-> t.nextThoughtNeeded,
   branchFromThought |-> t.branchFromThought, branchId |-> t.branchId,
   query |-> q]

\* The handler (515-533) up to processThought, and processThought (195-221)
\* up to its first await: validation, query, widening, push, branch index;
\* then, for a last thought, storeSessionToRecall up to its first await
\* (133-138), else the first part of the response (265-276).
ProcessThought(c, a) ==
  /\ LET v == validateThoughtData(a)
         t == AdjustTotalThoughts(v.value)
         history == PushThought(thoughtHistory, t)
         br == AddToBranches(branches, t)
         started == [NoLocal EXCEPT !.tool = "sequentialthinking", !.args = a]
     IN
     IF HandlerThrows(a) THEN
       /\ pc' = [pc EXCEPT ![c] = "done"]
       /\ local' = [local EXCEPT ![c] =
                      [started EXCEPT !.response = UnhandledResponse("TypeError")]]
       /\ UNCHANGED <<serverVars, arrivals>>
     ELSE IF ~v.ok THEN
       /\ pc' = [pc EXCEPT ![c] = "done"]
       /\ local' = [local EXCEPT ![c] =
                      [started EXCEPT !.response = ErrorResponse(v.error)]]
       /\ UNCHANGED <<serverVars, arrivals>>
     ELSE
       /\ currentQuery' = SetQuery(currentQuery, a.query)
       /\ thoughtHistory' = history
       /\ branches' = br
       /\ arrivals' = Append(arrivals, Arrival(t, a.query))
       /\ UNCHANGED currentSessionId
       /\ IF t.nextThoughtNeeded THEN
            /\ pc' = [pc EXCEPT ![c] = "p6"]
            /\ local' = [local EXCEPT ![c] =
                           [started EXCEPT !.response = BuildingResponse(t, br, history)]]
          ELSE IF Len(history) = 0 THEN
            /\ pc' = [pc EXCEPT ![c] = "p5"]
            /\ local' = [local EXCEPT ![c] = [started EXCEPT !.sessionInfo = NoInfo]]
          ELSE
            /\ pc' = [pc EXCEPT ![c] = "p2"]
            /\ local' = [local EXCEPT ![c] = started]
  /\ UNCHANGED <<configVars, gatewayVars, clock, remoteVars, connected, flushedAt, sessionsMinted,
                 storeGhosts, initGhosts>>

\* A sequentialthinking call arrives with some arguments.
CallSequentialThinking(c) ==
  /\ Arrives(c)
  /\ \E a \in ThoughtArgs(c) : ProcessThought(c, a)

\* storeSessionToRecall, lines 145-178: the history is copied and handed to
\* storeSession, which first awaits ensureInitialized (line 290).
HandToStoreSession(c) ==
  /\ pc[c] = "p2"
  /\ LET batch == CloneThoughts(thoughtHistory, currentSessionId) IN
       /\ local' = [local EXCEPT ![c].thoughtsToStore = batch,
                                 ![c].queryInfo = QueryOrDefault(currentQuery),
                                 ![c].ret = "p3"]
       /\ handed' = Append(handed, [call |-> c, thoughts |-> batch,
                                    query |-> QueryOrDefault(currentQuery),
                                    from |-> flushedAt, upto |-> Len(arrivals)])
  /\ storeCalls' = [storeCalls EXCEPT ![c] = @ + 1]
  /\ pc' = [pc EXCEPT ![c] = IF NeedsInit THEN "list_wait" ELSE "p3"]
  /\ UNCHANGED <<configVars, serverVars, gatewayVars, clock, remoteVars, connected, sessionGhosts,
                 putCalls, dataCallsWhileNull, initGhosts>>

\* storeSession, lines 292-337: the gateway's pending thoughts are replaced by
\* the incoming batch, and storeSessionJSONL is called, which first awaits
\* ensureInitialized (line 202).
ReplaceCurrentThoughts(c) ==
  /\ pc[c] = "p3"
  /\ currentSessionThoughts' = EnhanceThoughts(local[c].thoughtsToStore, local[c].queryInfo)
  /\ local' = [local EXCEPT ![c].ret = "jsonl"]
  /\ pc' = [pc EXCEPT ![c] = IF NeedsInit THEN "list_wait" ELSE "jsonl"]
  /\ UNCHANGED <<configVars, serverVars, bucketAddress, initialized, clock, remoteVars, connected,
                 sessionGhosts, storeGhosts, initGhosts>>

\* storeSessionJSONL, lines 204-248: nothing pending returns undefined; else
\* the key is made from Date.now() and the pending thoughts are written with
\* bucketManager().add, under a 20 s timer.
StoreSessionJSONL(c) ==
  /\ pc[c] = "jsonl"
  /\ IF NothingToStore(currentSessionThoughts) THEN
       /\ pc' = [pc EXCEPT ![c] = "p5"]
       /\ local' = [local EXCEPT ![c].sessionInfo = NoInfo, ![c].putOutcome = "empty"]
       /\ UNCHANGED <<clock, putCalls, dataCallsWhileNull>>
     ELSE
       /\ \E now \in clock..MaxTime :
            /\ clock' = now
            /\ local' = [local EXCEPT ![c].putKey = SessionKey(now),
                                      ![c].putData = Serialize(ValidatedThoughts(currentSessionThoughts))]
       /\ putCalls' = [putCalls EXCEPT ![c] = @ + 1]
       /\ dataCallsWhileNull' = (dataCallsWhileNull \/ bucketAddress = NullAddr)
       /\ pc' = [pc EXCEPT ![c] = "put_wait"]
  /\ UNCHANGED <<configVars, serverVars, gatewayVars, remoteVars, connected, sessionGhosts,
                 handed, storeCalls, initGhosts>>

\* The remote stores the object under its key (a second write under a key
\* replaces the first).
PutObject(objects, k, data) == [x \in (DOMAIN objects) \cup {k} |-> IF x = k THEN data ELSE objects[x]]

\* What add resolves with: result.meta.tx.transactionHash, or "" when the
\* result carries no receipt (lines 262, 270).
Receipts == {"", "0xtx"}

\* storeSessionJSONL, lines 258-277: the write is accepted, with a receipt
\* (tx) or without one; the pending thoughts are cleared.
PutOk(c) ==
  /\ pc[c] = "put_wait"
  /\ remoteObjects' = PutObject(remoteObjects, local[c].putKey, local[c].putData)
  /\ currentSessionThoughts' = <<>>
  /\ \E tx \in Receipts :
       local' = [local EXCEPT ![c].receipt = tx,
                              ![c].sessionInfo = StorageOkResult(local[c].putKey, tx),
                              ![c].putOutcome = "ok"]
  /\ pc' = [pc EXCEPT ![c] = "p5"]
  /\ UNCHANGED <<configVars, serverVars, bucketAddress, initialized, clock, remoteBuckets, connected,
                 ghostVars>>

\* Mutant of PutError: the pending thoughts are cleared when the write is rejected.
PutErrorClears(c) ==
  /\ pc[c] = "put_wait"
  /\ currentSessionThoughts' = <<>>
  /\ local' = [local EXCEPT ![c].sessionInfo = StorageErrorResult(local[c].putKey),
                            ![c].putOutcome = "error"]
  /\ pc' = [pc EXCEPT ![c] = "p5"]
  /\ UNCHANGED <<configVars, serverVars, bucketAddress, initialized, clock, remoteVars, connected,
                 ghostVars>>

\* Mutant of PutError: a rejected write is tried again.
PutErrorRetry(c) ==
  /\ pc[c] = "put_wait"
  /\ pc' = [pc EXCEPT ![c] = "jsonl"]
  /\ UNCHANGED <<configVars, serverVars, gatewayVars, clock, remoteVars, connected, local, ghostVars>>

\* storeSessionJSONL, lines 249-256: the write is rejected.
PutError(c) ==
  /\ pc[c] = "put_wait"
  /\ local' = [local EXCEPT ![c].sessionInfo = StorageErrorResult(local[c].putKey),
                            ![c].putOutcome = "error"]
  /\ pc' = [pc EXCEPT ![c] = "p5"]
  /\ UNCHANGED <<configVars, serverVars, gatewayVars, clock, remoteVars, connected, ghostVars>>

\* withTimeout around add (20 s): the timer wins; the write is not cancelled
\* and may still land on the remote.
PutTimeout(c) ==
  /\ pc[c] = "put_wait"
  /\ \E lands \in BOOLEAN :
       remoteObjects' = IF lands
                          THEN PutObject(remoteObjects, local[c].putKey, local[c].putData)
                          ELSE remoteObjects
  /\ local' = [local EXCEPT ![c].sessionInfo = StorageErrorResult(local[c].putKey),
                            ![c].putOutcome = "timeout"]
  /\ pc' = [pc EXCEPT ![c] = "p5"]
  /\ UNCHANGED <<configVars, serverVars, gatewayVars, clock, remoteBuckets, connected, ghostVars>>

\* generateNewSessionId, lines 52-56: `session-${Date.now()}-${random}`.
NewSessionId(now, r) == <<now, r>>

\* processThought, lines 231-273, after storeSessionToRecall has returned:
\* with a result (and a getStatusInfo await) the session is cleared when the
\* result says success (clearSession, lines 58-64); then the first part of
\* the response is built.
AfterStore(c) ==
  /\ pc[c] = "p5"
  /\ LET t == AdjustTotalThoughts(validateThoughtData(local[c].args).value) IN
     IF ShouldClearSession(local[c].sessionInfo) THEN
       /\ thoughtHistory' = <<>>
       /\ branches' = NoBranches
       /\ currentQuery' = ""
       /\ \E now \in clock..MaxTime, r \in 0..(RandRange - 1) :
            /\ clock' = now
            /\ currentSessionId' = NewSessionId(now, r)
       /\ sessionsMinted' = sessionsMinted + 1
       /\ flushedAt' = Len(arrivals)
       /\ local' = [local EXCEPT ![c].response = BuildingResponse(t, NoBranches, <<>>),
                                 ![c].putOutcome = "none", ![c].receipt = ""]
     ELSE
       /\ local' = [local EXCEPT ![c].response = BuildingResponse(t, branches, thoughtHistory),
                                 ![c].putOutcome = "none", ![c].receipt = ""]
       /\ UNCHANGED <<serverVars, clock, sessionsMinted, flushedAt>>
  /\ pc' = [pc EXCEPT ![c] = "p6"]
  /\ UNCHANGED <<configVars, gatewayVars, remoteVars, connected, arrivals, storeGhosts, initGhosts>>

\* processThought, lines 276-304: the status is read once more and the
\* response is returned.
Respond(c) ==
  /\ pc[c] = "p6"
  /\ local' = [local EXCEPT ![c] =
                 [NoLocal EXCEPT !.tool = local[c].tool, !.args = local[c].args,
                                 !.caught = local[c].caught,
                                 !.response = ThoughtResponse(local[c].response, local[c].sessionInfo,
                                                              bucketAddress, thoughtHistory)]]
  /\ pc' = [pc EXCEPT ![c] = "done"]
  /\ UNCHANGED <<configVars, serverVars, gatewayVars, clock, remoteVars, connected, ghostVars>>

\* ------------------------------------------------------------ recallstatus
\* The handler, lines 534-545: initializeBucket when isInitialized() is false,
\* then an await of getStatusInfo.
CallRecallStatus(c) ==
  /\ Arrives(c)
  /\ local' = [local EXCEPT ![c] = [NoLocal EXCEPT !.tool = "recallstatus", !.ret = "rs2"]]
  /\ pc' = [pc EXCEPT ![c] = IF ~isInitialized THEN "list_wait" ELSE "rs2"]
  /\ UNCHANGED <<configVars, serverVars, gatewayVars, clock, remoteVars, connected, ghostVars>>

\* The handler, lines 545-560.
RecallStatus(c) ==
  /\ pc[c] = "rs2"
  /\ local' = [local EXCEPT ![c].response = StatusResponse(initialized, bucketAddress)]
  /\ pc' = [pc EXCEPT ![c] = "done"]
  /\ UNCHANGED <<configVars, serverVars, gatewayVars, clock, remoteVars, connected, ghostVars>>

\* ------------------------------------------------------------ listsessions
\* The handler, lines 576-587.
CallListSessions(c) ==
  /\ Arrives(c)
  /\ local' = [local EXCEPT ![c] = [NoLocal EXCEPT !.tool = "listsessions", !.ret = "ls2"]]
  /\ pc' = [pc EXCEPT ![c] = IF ~isInitialized THEN "list_wait" ELSE "ls2"]
  /\ UNCHANGED <<configVars, serverVars, gatewayVars, clock, remoteVars, connected, ghostVars>>

\* The handler, lines 587-591: the bucket address is read, and
\* listAllSessionObjects is called, which first awaits ensureInitialized (383).
ListSessions(c) ==
  /\ pc[c] = "ls2"
  /\ local' = [local EXCEPT ![c].statusBucket = bucketAddress, ![c].ret = "ls_query"]
  /\ pc' = [pc EXCEPT ![c] = IF NeedsInit THEN "list_wait" ELSE "ls_query"]
  /\ UNCHANGED <<configVars, serverVars, gatewayVars, clock, remoteVars, connected, ghostVars>>

\* listAllSessionObjects, line 387: bucketManager().query is called (no timer).
QueryObjects(c) ==
  /\ pc[c] = "ls_query"
  /\ dataCallsWhileNull' = (dataCallsWhileNull \/ bucketAddress = NullAddr)
  /\ pc' = [pc EXCEPT ![c] = "query_wait"]
  /\ UNCHANGED <<configVars, serverVars, gatewayVars, clock, remoteVars, connected, local,
                 sessionGhosts, handed, storeCalls, putCalls, initGhosts>>

\* The answer of listsessions, lines 594-628.
SessionsResponse(keys, addr) ==
  [kind |-> "sessions", isError |-> FALSE, sessions |-> keys,
   count |-> Cardinality(keys), bucketAddress |-> addr]

\* listAllSessionObjects, lines 389-431: the objects of the bucket whose key
\* holds the log prefix (every object of the bucket is a session file).
QueryOk(c) ==
  /\ pc[c] = "query_wait"
  /\ local' = [local EXCEPT ![c].response =
                 SessionsResponse(DOMAIN remoteObjects, local[c].statusBucket)]
  /\ pc' = [pc EXCEPT ![c] = "done"]
  /\ UNCHANGED <<configVars, serverVars, gatewayVars, clock, remoteVars, connected, ghostVars>>

\* Mutant of QueryError: the rejection of query is not caught.
QueryErrorRaises(c) ==
  /\ pc[c] = "query_wait"
  /\ local' = [local EXCEPT ![c].response = RaisedResponse("query failed"),
                            ![c].putOutcome = "readError"]
  /\ pc' = [pc EXCEPT ![c] = "done"]
  /\ UNCHANGED <<configVars, serverVars, gatewayVars, clock, remoteVars, connected, ghostVars>>

\* listAllSessionObjects, lines 432-435: query rejects, the list is empty.
QueryError(c) ==
  /\ pc[c] = "query_wait"
  /\ local' = [local EXCEPT ![c].response = SessionsResponse({}, local[c].statusBucket),
                            ![c].putOutcome = "readError"]
  /\ pc' = [pc EXCEPT ![c] = "done"]
  /\ UNCHANGED <<configVars, serverVars, gatewayVars, clock, remoteVars, connected, ghostVars>>

\* -------------------------------------------------------------- getsession
\* The keys a getsession call may ask for: none, or the key of some instant.
SessionKeyArgs == {Undef} \cup {Str(SessionKey(t)) : t \in 0..MaxTime}

\* The handler, lines 643-659: a key is required; initializeBucket when
\* isInitialized() is false.
CallGetSession(c) ==
  /\ Arrives(c)
  /\ \E k \in SessionKeyArgs :
       LET started == [NoLocal EXCEPT !.tool = "getsession", !.ret = "gs2",
                                      !.args = [NoArgs EXCEPT !.key = k]]
       IN
       IF ~Truthy(k) THEN
         /\ local' = [local EXCEPT ![c] =
                        [started EXCEPT !.response = ErrorResponse("Session key is required")]]
         /\ pc' = [pc EXCEPT ![c] = "done"]
       ELSE
         /\ local' = [local EXCEPT ![c] = started]
         /\ pc' = [pc EXCEPT ![c] = IF ~isInitialized THEN "list_wait" ELSE "gs2"]
  /\ UNCHANGED <<configVars, serverVars, gatewayVars, clock, remoteVars, connected, ghostVars>>

\* getSessionObject, line 444, and getObjectContent, line 495, each await
\* ensureInitialized; then bucketManager().get is called (lines 498-501, no timer).
GetObject(c) ==
  /\ pc[c] \in {"gs2", "gs3", "gs_get"}
  /\ IF NeedsInit /\ pc[c] # "gs_get" THEN
       /\ local' = [local EXCEPT ![c].ret = IF pc[c] = "gs2" THEN "gs3" ELSE "gs_get"]
       /\ pc' = [pc EXCEPT ![c] = "list_wait"]
       /\ UNCHANGED dataCallsWhileNull
     ELSE
       /\ dataCallsWhileNull' = (dataCallsWhileNull \/ bucketAddress = NullAddr)
       /\ pc' = [pc EXCEPT ![c] = "get_wait"]
       /\ UNCHANGED local
  /\ UNCHANGED <<configVars, serverVars, gatewayVars, clock, remoteVars, connected,
                 sessionGhosts, handed, storeCalls, putCalls, initGhosts>>

\* getSessionObject, lines 455-475: the content is split into lines and every
\* line is parsed.
SessionObject(k, data) ==
  [key |-> k, thoughts |-> ParseContent(data), thoughtCount |-> Len(ParseContent(data))]

\* getObjectContent, lines 503-506: the object exists; an empty content is
\* null to getSessionObject (line 450); else getSessionObject parses it and
\* the handler awaits getStatusInfo (line 669).
GetFound(c) ==
  /\ pc[c] = "get_wait"
  /\ local[c].args.key.s \in DOMAIN remoteObjects
  /\ IF ContentEmpty(remoteObjects[local[c].args.key.s]) THEN
       /\ local' = [local EXCEPT ![c].response = NotFound(local[c].tool)]
       /\ pc' = [pc EXCEPT ![c] = "done"]
     ELSE
       /\ local' = [local EXCEPT ![c].putData = remoteObjects[local[c].args.key.s]]
       /\ pc' = [pc EXCEPT ![c] = "gs_resp"]
  /\ UNCHANGED <<configVars, serverVars, gatewayVars, clock, remoteVars, connected, ghostVars>>

\* The handler, lines 669-683.
GetSessionRespond(c) ==
  /\ pc[c] = "gs_resp"
  /\ local' = [local EXCEPT ![c] =
                 [NoLocal EXCEPT !.tool = local[c].tool, !.args = local[c].args,
                    !.caught = local[c].caught,
                    !.response = [kind |-> "session", isError |-> FALSE,
                                  key |-> local[c].args.key.s,
                                  content |-> SessionObject(local[c].args.key.s, local[c].putData),
                                  portalLink |-> <<bucketAddress, local[c].args.key.s>>]]]
  /\ pc' = [pc EXCEPT ![c] = "done"]
  /\ UNCHANGED <<configVars, serverVars, gatewayVars, clock, remoteVars, connected, ghostVars>>

\* Mutant of GetMissing: the rejection of get is not caught.
GetMissingRaises(c) ==
  /\ pc[c] = "get_wait"
  /\ local' = [local EXCEPT ![c].response = RaisedResponse("get failed"),
                            ![c].putOutcome = "readError"]
  /\ pc' = [pc EXCEPT ![c] = "done"]
  /\ UNCHANGED <<configVars, serverVars, gatewayVars, clock, remoteVars, connected, ghostVars>>

\* getObjectContent, lines 507-511: no such object, or get rejects: null, and
\* the handler answers not found (lines 664-666, 684-697).
GetMissing(c) ==
  /\ pc[c] = "get_wait"
  /\ local' = [local EXCEPT ![c].response = NotFound(local[c].tool),
                            ![c].putOutcome = "readError"]
  /\ pc' = [pc EXCEPT ![c] = "done"]
  /\ UNCHANGED <<configVars, serverVars, gatewayVars, clock, remoteVars, connected, ghostVars>>

\* ------------------------------------------------------------ unknown tool
\* The handler, lines 700-706.
CallUnknownTool(c) ==
  /\ Arrives(c)
  /\ local' = [local EXCEPT ![c] = [NoLocal EXCEPT !.tool = "unknown",
                                                   !.response = UnknownToolResponse]]
  /\ pc' = [pc EXCEPT ![c] = "done"]
  /\ UNCHANGED <<configVars, serverVars, gatewayVars, clock, remoteVars, connected, ghostVars>>

\* ------------------------------------------------------------------- Next
Next ==
  \/ \E p \in Procs : ListFound(p)
  \/ \E p \in Procs : ListNotFound(p)
  \/ \E p \in Procs : CreateOk(p)
  \/ \E p \in Procs : ListError(p)
  \/ \E p \in Procs : CreateError(p)
  \/ \E p \in Procs : InitTimeout(p)
  \/ \E c \in Calls : CallSequentialThinking(c)
  \/ \E c \in Calls : HandToStoreSession(c)
  \/ \E c \in Calls : ReplaceCurrentThoughts(c)
  \/ \E c \in Calls : StoreSessionJSONL(c)
  \/ \E c \in Calls : PutOk(c)
  \/ \E c \in Calls : PutError(c)
  \/ \E c \in Calls : PutTimeout(c)
  \/ \E c \in Calls : AfterStore(c)
  \/ \E c \in Calls : Respond(c)
  \/ \E c \in Calls : CallRecallStatus(c)
  \/ \E c \in Calls : RecallStatus(c)
  \/ \E c \in Calls : CallListSessions(c)
  \/ \E c \in Calls : ListSessions(c)
  \/ \E c \in Calls : QueryObjects(c)
  \/ \E c \in Calls : QueryOk(c)
  \/ \E c \in Calls : QueryError(c)
  \/ \E c \in Calls : CallGetSession(c)
  \/ \E c \in Calls : GetObject(c)
  \/ \E c \in Calls : GetFound(c)
  \/ \E c \in Calls : GetSessionRespond(c)
  \/ \E c \in Calls : GetMissing(c)
  \/ \E c \in Calls : CallUnknownTool(c)

Spec == Init /\ [][Next]_vars

\* ------------------------------------------------- the gateway on its own
\* RecallIntegration is exported as a singleton with public methods
\* (storeSession is "an external-facing method that can be called directly",
\* line 286).  The second specification has no server: each call is a direct
\* call of storeSession, listAllSessionObjects or getSessionObject on the
\* gateway as constructed (uninitialized), against a remote whose bucket may
\* exist and may hold an object that somebody else wrote.  The caller awaits
\* each call before it makes the next.  The getsession tool, the caller of
\* getSessionObject in the server, is there too.

\* A step as storeSession takes it; an empty text stands for an empty or a
\* missing one (both are falsy at lines 221 and 306).
GatewayStep(txt) ==
  [thought |-> txt, thoughtNumber |-> 1, totalThoughts |-> 1,
   nextThoughtNeeded |-> FALSE, branchFromThought |-> Undef, branchId |-> Undef,
   sessionId |-> <<0, 0>>]

GatewayBatches ==
  UNION {[1..n -> {GatewayStep(""), GatewayStep("a")}] : n \in 0..MaxBatch}

\* The lines an object may hold: the JSON text of a step, text that is no
\* JSON, and the empty line.
GatewayLines ==
  {JsonLine(GatewayStep("a")), JsonLine(GatewayStep("b")), TextLine("{oops"), BlankLine}

GatewayContents == UNION {[1..n -> GatewayLines] : n \in 1..MaxLines}

GatewayInit ==
  /\ ConfigAfterUse
  /\ thoughtHistory = <<>>
  /\ branches = NoBranches
  /\ currentQuery = ""
  /\ clock = 0
  /\ currentSessionId = <<0, 0>>
  /\ bucketAddress = NullAddr
  /\ initialized = FALSE
  /\ currentSessionThoughts = <<>>
  /\ remoteBuckets \in {0, 1}
  /\ remoteObjects \in {[k \in {} |-> <<>>]}
                       \cup {[k \in {SessionKey(0)} |-> content] : content \in GatewayContents}
  /\ remoteBuckets = 0 => remoteObjects = [k \in {} |-> <<>>]
  /\ pc = [p \in Procs |-> IF p \in Calls THEN "idle" ELSE "done"]
  /\ connected = TRUE
  /\ local = [p \in Procs |->
                IF p \in Calls THEN NoLocal
                ELSE [NoLocal EXCEPT !.tool = "startup", !.ret = "done"]]
  /\ arrivals = <<>>
  /\ flushedAt = 0
  /\ handed = <<>>
  /\ sessionsMinted = 1
  /\ createCalls = 0
  /\ storeCalls = [c \in Calls |-> 0]
  /\ putCalls = [c \in Calls |-> 0]
  /\ dataCallsWhileNull = FALSE

\* The caller makes call c when the call before it has returned.
GatewayArrives(c) ==
  /\ pc[c] = "idle"
  /\ c > 1 => pc[c - 1] = "done"

\* storeSession(thoughts, {query}), line 289, up to its await of ensureInitialized.
CallStoreSession(c) ==
  /\ GatewayArrives(c)
  /\ \E batch \in GatewayBatches :
       local' = [local EXCEPT ![c] =
                   [NoLocal EXCEPT !.tool = "storeSession", !.ret = "p3",
                                   !.thoughtsToStore = batch, !.queryInfo = "q"]]
  /\ storeCalls' = [storeCalls EXCEPT ![c] = @ + 1]
  /\ pc' = [pc EXCEPT ![c] = IF NeedsInit THEN "list_wait" ELSE "p3"]
  /\ UNCHANGED <<configVars, serverVars, gatewayVars, clock, remoteVars, connected, sessionGhosts,
                 handed, putCalls, dataCallsWhileNull, initGhosts>>

\* storeSession returns what storeSessionJSONL returned, or undefined (337-341).
StoreSessionReturns(c) ==
  /\ pc[c] = "p5"
  /\ local[c].tool = "storeSession"
  /\ local' = [local EXCEPT ![c] =
                 [NoLocal EXCEPT !.tool = local[c].tool, !.caught = local[c].caught,
                                 !.response = StoredResponse(local[c].sessionInfo)]]
  /\ pc' = [pc EXCEPT ![c] = "done"]
  /\ UNCHANGED <<configVars, serverVars, gatewayVars, clock, remoteVars, connected, ghostVars>>

\* listAllSessionObjects(), line 382, up to its await of ensureInitialized.
CallListAllSessionObjects(c) ==
  /\ GatewayArrives(c)
  /\ local' = [local EXCEPT ![c] =
                 [NoLocal EXCEPT !.tool = "listAllSessionObjects", !.ret = "ls_query"]]
  /\ pc' = [pc EXCEPT ![c] = IF NeedsInit THEN "list_wait" ELSE "ls_query"]
  /\ UNCHANGED <<configVars, serverVars, gatewayVars, clock, remoteVars, connected, ghostVars>>

\* getSessionObject(key), line 443.
CallGetSessionObject(c) ==
  /\ GatewayArrives(c)
  /\ \E t \in 0..MaxTime :
       local' = [local EXCEPT ![c] =
                   [NoLocal EXCEPT !.tool = "getSessionObject", !.ret = "gs3",
                                   !.args = [NoArgs EXCEPT !.key = Str(SessionKey(t))]]]
  /\ pc' = [pc EXCEPT ![c] = "gs2"]
  /\ UNCHANGED <<configVars, serverVars, gatewayVars, clock, remoteVars, connected, ghostVars>>

GatewayNext ==
  \/ \E p \in Procs : ListFound(p)
  \/ \E p \in Procs : ListNotFound(p)
  \/ \E p \in Procs : CreateOk(p)
  \/ \E p \in Procs : ListError(p)
  \/ \E p \in Procs : CreateError(p)
  \/ \E p \in Procs : InitTimeout(p)
  \/ \E c \in Calls : CallStoreSession(c)
  \/ \E c \in Calls : ReplaceCurrentThoughts(c)
  \/ \E c \in Calls : StoreSessionJSONL(c)
  \/ \E c \in Calls : PutOk(c)
  \/ \E c \in Calls : PutError(c)
  \/ \E c \in Calls : PutTimeout(c)
  \/ \E c \in Calls : StoreSessionReturns(c)
  \/ \E c \in Calls : CallListAllSessionObjects(c)
  \/ \E c \in Calls : QueryObjects(c)
  \/ \E c \in Calls : QueryOk(c)
  \/ \E c \in Calls : QueryError(c)
  \/ \E c \in Calls : CallGetSessionObject(c)
  \/ \E c \in Calls : CallGetSession(c)
  \/ \E c \in Calls : GetObject(c)
  \/ \E c \in Calls : GetFound(c)
  \/ \E c \in Calls : GetSessionRespond(c)
  \/ \E c \in Calls : GetMissing(c)

GatewaySpec == GatewayInit /\ [][GatewayNext]_vars

\* The gateway with what the event loop guarantees: a continuation that can
\* run does run, and a timer that was set (withTimeout, lines 105-122: 15 s
\* around getOrCreateBucket, 20 s around add) fires unless the operation it
\* guards has settled.  Nothing makes the remote answer.
GatewayFairness ==
  \A c \in Calls :
    /\ WF_vars(ReplaceCurrentThoughts(c))
    /\ WF_vars(StoreSessionJSONL(c))
    /\ WF_vars(StoreSessionReturns(c))
    /\ WF_vars(QueryObjects(c))
    /\ WF_vars(GetObject(c))
    /\ WF_vars(GetSessionRespond(c))
    /\ WF_vars(InitTimeout(c))
    /\ WF_vars(PutTimeout(c))

GatewayFairSpec == GatewaySpec /\ GatewayFairness

\* ------------------------------------------------------ one client, in turn
\* The server as constructed, with a single client that sends the steps
\* A (1 of 3), B (2 of 3) and the last step C (4 of 3), then MaxFollowUps
\* more steps, each when the answer to the one before has come.
ScenarioStep(txt, tn, tt, ntn) ==
  MkArgs(Str(txt), Num(tn), Num(tt), Bool(ntn), Undef, Undef, Undef, Undef)

ScenarioSteps ==
  <<ScenarioStep("A", 1, 3, TRUE), ScenarioStep("B", 2, 3, TRUE), ScenarioStep("C", 4, 3, FALSE)>>

\* The steps that follow: the n-th has the text Dn; it is a last step or
\* not, and carries no branch argument, a branchId alone, or a branchId
\* together with branchFromThought.
ScenarioFollowUps(n) ==
  {MkArgs(Str("D" \o ToString(n)), Num(1), Num(1), Bool(ntn), br[1], br[2], Undef, Undef) :
     ntn \in BOOLEAN,
     br \in {<<Undef, Undef>>, <<Undef, Str("b1")>>, <<Num(1), Str("b1")>>, <<Num(1), Str("b2")>>}}

\* The handler of sequentialthinking (515-533) for the client's next step;
\* arrivals holds the steps accepted so far.
ScenarioCall(c) ==
  /\ c = 1
  /\ connected
  /\ pc[c] \in {"idle", "done"}
  /\ Len(arrivals) < Len(ScenarioSteps) + MaxFollowUps
  /\ \E a \in (IF Len(arrivals) < Len(ScenarioSteps)
                 THEN {ScenarioSteps[Len(arrivals) + 1]}
                 ELSE ScenarioFollowUps(Len(arrivals) + 1 - Len(ScenarioSteps))) :
       ProcessThought(c, a)

ScenarioNext ==
  \/ \E p \in Procs : ListFound(p)
  \/ \E p \in Procs : ListNotFound(p)
  \/ \E p \in Procs : CreateOk(p)
  \/ \E p \in Procs : ListError(p)
  \/ \E p \in Procs : CreateError(p)
  \/ \E p \in Procs : InitTimeout(p)
  \/ \E c \in Calls : ScenarioCall(c)
  \/ \E c \in Calls : HandToStoreSession(c)
  \/ \E c \in Calls : ReplaceCurrentThoughts(c)
  \/ \E c \in Calls : StoreSessionJSONL(c)
  \/ \E c \in Calls : PutOk(c)
  \/ \E c \in Calls : PutError(c)
  \/ \E c \in Calls : PutTimeout(c)
  \/ \E c \in Calls : AfterStore(c)
  \/ \E c \in Calls : Respond(c)

ScenarioSpec == Init /\ [][ScenarioNext]_vars

\* ------------------------------------------- the listing of a query result
\* listAllSessionObjects, lines 389-431, on what query resolved with.  An
\* object of the result is kept by what the code reads of it: whether its
\* key holds the log prefix, the digits of the first "-digits-" segment of
\* the key (Undef when the key has none), and the timestamp of
\* obj.state.metadata (Undef when the metadata carries none).
ListedObject(pre, ep, ts) == [hasPrefix |-> pre, epoch |-> ep, metaTimestamp |-> ts]

ListedObjects ==
  {ListedObject(pre, ep, ts) :
     pre \in BOOLEAN, ep \in {Undef, Num(1), Num(2)}, ts \in {Undef, Num(1), Num(7)}}

QueryResults == UNION {[1..n -> ListedObjects] : n \in 0..MaxListed}

\* Mutant of ListEntry: a timestamp of the metadata is kept.
ListEntryKeepsMetadata(obj) ==
  [hasPrefix |-> obj.hasPrefix, epoch |-> obj.epoch,
   timestamp |-> IF obj.metaTimestamp # Undef THEN obj.metaTimestamp
                 ELSE IF obj.hasPrefix /\ obj.epoch # Undef THEN obj.epoch
                 ELSE Undef]

\* Lines 394-423: the metadata of the object is copied (401-408), then the
\* timestamp is assigned from the key when the key holds the prefix and
\* matches /-(\d+)-/ (411-417).
ListEntry(obj) ==
  [hasPrefix |-> obj.hasPrefix, epoch |-> obj.epoch,
   timestamp |-> IF obj.hasPrefix /\ obj.epoch # Undef THEN obj.epoch
                 ELSE obj.metaTimestamp]

\* Line 431: the objects whose key holds the prefix.
HoldsPrefix(entry) == entry.hasPrefix

ListEntries(objects) ==
  SelectSeq([i \in 1..Len(objects) |-> ListEntry(objects[i])], HoldsPrefix)

ListingResponse(entries) == [kind |-> "listing", isError |-> FALSE, entries |-> entries]

ListingInit ==
  /\ ConfigAfterUse
  /\ thoughtHistory = <<>>
  /\ branches = NoBranches
  /\ currentQuery = ""
  /\ clock = 0
  /\ currentSessionId = <<0, 0>>
  /\ bucketAddress = 1
  /\ initialized = TRUE
  /\ currentSessionThoughts = <<>>
  /\ remoteBuckets = 1
  /\ remoteObjects = [k \in {} |-> <<>>]
  /\ connected = TRUE
  /\ pc = [p \in Procs |-> IF p = 1 THEN "query_wait" ELSE "done"]
  /\ \E objects \in QueryResults :
       local = [p \in Procs |->
                  IF p = 1
                    THEN [NoLocal EXCEPT !.tool = "listAllSessionObjects",
                                         !.queryResult = objects]
                    ELSE NoLocal]
  /\ arrivals = <<>>
  /\ flushedAt = 0
  /\ handed = <<>>
  /\ sessionsMinted = 1
  /\ createCalls = 0
  /\ storeCalls = [c \in Calls |-> 0]
  /\ putCalls = [c \in Calls |-> 0]
  /\ dataCallsWhileNull = FALSE

\* query has resolved with the objects: they are mapped and filtered.
MapObjects(c) ==
  /\ pc[c] = "query_wait"
  /\ local[c].tool = "listAllSessionObjects"
  /\ local' = [local EXCEPT ![c].response = ListingResponse(ListEntries(local[c].queryResult))]
  /\ pc' = [pc EXCEPT ![c] = "done"]
  /\ UNCHANGED <<configVars, serverVars, gatewayVars, clock, remoteVars, connected, ghostVars>>

ListingNext == \E c \in Calls : MapObjects(c)

ListingSpec == ListingInit /\ [][ListingNext]_vars

\* ------------------------------------------------- a store and then a get
\* A caller of the gateway stores a batch and, when the store reports
\* success, asks for the object under the key that the store returned.  The
\* caller keeps the batch it passed.
RoundTripStep(txt, tn, ntn) ==
  [thought |-> txt, thoughtNumber |-> tn, totalThoughts |-> MaxNum,
   nextThoughtNeeded |-> ntn, branchFromThought |-> Undef, branchId |-> Undef,
   sessionId |-> <<0, 0>>]

RoundTripBatches ==
  UNION {[1..n -> {RoundTripStep(txt, tn, ntn) :
                     txt \in {"", "a", "b"}, tn \in 1..MaxNum, ntn \in BOOLEAN}] :
           n \in 1..MaxBatch}

\* storeSession(batch, {query}), line 289, up to its await of ensureInitialized.
RoundTripStore(c) ==
  /\ GatewayArrives(c)
  /\ c + 1 \in Calls
  /\ \E batch \in RoundTripBatches :
       local' = [local EXCEPT ![c] =
                   [NoLocal EXCEPT !.tool = "storeSession", !.ret = "p3",
                                   !.thoughtsToStore = batch, !.queryInfo = "q"]]
  /\ storeCalls' = [storeCalls EXCEPT ![c] = @ + 1]
  /\ pc' = [pc EXCEPT ![c] = IF NeedsInit THEN "list_wait" ELSE "p3"]
  /\ UNCHANGED <<configVars, serverVars, gatewayVars, clock, remoteVars, connected, sessionGhosts,
                 handed, putCalls, dataCallsWhileNull, initGhosts>>

\* storeSession returns (337-341); the caller still holds its batch.
RoundTripStoreReturns(c) ==
  /\ pc[c] = "p5"
  /\ local[c].tool = "storeSession"
  /\ local' = [local EXCEPT ![c] =
                 [NoLocal EXCEPT !.tool = local[c].tool, !.caught = local[c].caught,
                                 !.thoughtsToStore = local[c].thoughtsToStore,
                                 !.response = StoredResponse(local[c].sessionInfo)]]
  /\ pc' = [pc EXCEPT ![c] = "done"]
  /\ UNCHANGED <<configVars, serverVars, gatewayVars, clock, remoteVars, connected, ghostVars>>

\* The store of call c has returned success.
StoreSucceeded(c) ==
  /\ pc[c] = "done"
  /\ local[c].tool = "storeSession"
  /\ local[c].response.kind = "stored"
  /\ local[c].response.info.defined
  /\ local[c].response.info.success

\* getSessionObject(key), line 443, with the key of the store before it.
RoundTripGet(c) ==
  /\ pc[c] = "idle"
  /\ c > 1
  /\ StoreSucceeded(c - 1)
  /\ local' = [local EXCEPT ![c] =
                 [NoLocal EXCEPT !.tool = "getSessionObject", !.ret = "gs3",
                                 !.args = [NoArgs EXCEPT !.key = Str(local[c - 1].response.info.key)]]]
  /\ pc' = [pc EXCEPT ![c] = "gs2"]
  /\ UNCHANGED <<configVars, serverVars, gatewayVars, clock, remoteVars, connected, ghostVars>>

RoundTripNext ==
  \/ \E p \in Procs : ListFound(p)
  \/ \E p \in Procs : ListNotFound(p)
  \/ \E p \in Procs : CreateOk(p)
  \/ \E p \in Procs : ListError(p)
  \/ \E p \in Procs : CreateError(p)
  \/ \E p \in Procs : InitTimeout(p)
  \/ \E c \in Calls : RoundTripStore(c)
  \/ \E c \in Calls : ReplaceCurrentThoughts(c)
  \/ \E c \in Calls : StoreSessionJSONL(c)
  \/ \E c \in Calls : PutOk(c)
  \/ \E c \in Calls : PutError(c)
  \/ \E c \in Calls : PutTimeout(c)
  \/ \E c \in Calls : RoundTripStoreReturns(c)
  \/ \E c \in Calls : RoundTripGet(c)
  \/ \E c \in Calls : GetObject(c)
  \/ \E c \in Calls : GetFound(c)
  \/ \E c \in Calls : GetSessionRespond(c)
  \/ \E c \in Calls : GetMissing(c)

RoundTripSpec == GatewayInit /\ [][RoundTripNext]_vars

\* ------------------------------------------- the key of a stored session
\* A key is kept as its characters, so that the listing reads the timestamp
\* out of it the way the code does.
DigitChars == <<"0", "1", "2", "3", "4", "5", "6", "7", "8", "9">>

IsDigit(ch) == \E i \in 1..Len(DigitChars) : DigitChars[i] = ch

DigitValue(ch) == (CHOOSE i \in 1..Len(DigitChars) : DigitChars[i] = ch) - 1

\* The decimal text of a number, as the template literal of line 211 writes it.
RECURSIVE Decimal(_)
Decimal(n) ==
  IF n < 10 THEN <<DigitChars[n + 1]>>
  ELSE Decimal(n \div 10) \o <<DigitChars[(n % 10) + 1]>>

\* parseInt(digits, 10), line 415.
RECURSIVE ParseInt(_)
ParseInt(digits) ==
  IF digits = <<>> THEN 0
  ELSE ParseInt(SubSeq(digits, 1, Len(digits) - 1)) * 10 + DigitValue(digits[Len(digits)])

SessionSuffix == <<"-", "s", "e", "s", "s", "i", "o", "n", ".", "j", "s", "o", "n", "l">>

\* storeSessionJSONL, line 211: `${this.logPrefix}${timestamp}-session.jsonl`.
KeyText(prefix, timestamp) == prefix \o Decimal(timestamp) \o SessionSuffix

\* key.includes(prefix), lines 412 and 431.
KeyIncludes(key, prefix) ==
  \E i \in 0..(Len(key) - Len(prefix)) : SubSeq(key, i + 1, i + Len(prefix)) = prefix

\* The matches of /-(\d+)-/ in the key: a dash at i, digits, a dash at j.
DashDigitsDash(key) ==
  {m \in (1..Len(key)) \X (1..Len(key)) :
     /\ m[1] + 1 < m[2]
     /\ key[m[1]] = "-" /\ key[m[2]] = "-"
     /\ \A k \in (m[1] + 1)..(m[2] - 1) : IsDigit(key[k])}

\* key.match(/-(\d+)-/), lines 413-415: the first match from the left, its
\* digits parsed; Undef when the key has no match.
TimestampMatch(key) ==
  IF DashDigitsDash(key) = {} THEN Undef
  ELSE LET m == CHOOSE x \in DashDigitsDash(key) : \A y \in DashDigitsDash(key) : x[1] <= y[1]
       IN Num(ParseInt(SubSeq(key, m[1] + 1, m[2] - 1)))

\* The object of a stored session as the listing reads it: add (lines
\* 239-243) passes no metadata.
KeyObject(key, prefix) == ListedObject(KeyIncludes(key, prefix), TimestampMatch(key), Undef)

\* The values of Date.now() drawn, of one and of two digits.
EpochMillis == {1, 2, 12}

PrefixChars == {"s", "-", "7"}

\* README.md line 610: process.env.RECALL_LOG_PREFIX || 'sequential-'.
ConfiguredPrefix(env) == IF env = <<>> THEN DefaultLogPrefix ELSE env

\* The prefixes a deployment may run with: what the config module makes of
\* a RECALL_LOG_PREFIX that is unset (the empty text) or holds at most
\* MaxPrefixLen characters.
LogPrefixes ==
  {ConfiguredPrefix(env) : env \in UNION {[1..n -> PrefixChars] : n \in 0..MaxPrefixLen}}

KeyInit ==
  /\ logPrefix \in LogPrefixes
  /\ configModule = "sodium"
  /\ secret = ""
  /\ secretLoaded = FALSE
  /\ envKey = "[REDACTED]"
  /\ thoughtHistory = <<>>
  /\ branches = NoBranches
  /\ currentQuery = ""
  /\ clock = 0
  /\ currentSessionId = <<0, 0>>
  /\ bucketAddress = 1
  /\ initialized = TRUE
  /\ currentSessionThoughts = <<>>
  /\ remoteBuckets = 1
  /\ remoteObjects = [k \in {} |-> <<>>]
  /\ connected = TRUE
  /\ pc = [p \in Procs |-> IF p = 1 THEN "idle" ELSE "done"]
  /\ local = [p \in Procs |-> NoLocal]
  /\ arrivals = <<>>
  /\ flushedAt = 0
  /\ handed = <<>>
  /\ sessionsMinted = 1
  /\ createCalls = 0
  /\ storeCalls = [c \in Calls |-> 0]
  /\ putCalls = [c \in Calls |-> 0]
  /\ dataCallsWhileNull = FALSE

\* storeSessionJSONL, lines 210-211: the key is formed at some instant.
FormKey(c) ==
  /\ pc[c] = "idle"
  /\ \E t \in EpochMillis :
       local' = [local EXCEPT ![c] =
                   [NoLocal EXCEPT !.tool = "storeSessionJSONL",
                                   !.keyTime = t, !.keyText = KeyText(logPrefix, t)]]
  /\ pc' = [pc EXCEPT ![c] = "keyed"]
  /\ UNCHANGED <<configVars, serverVars, gatewayVars, clock, remoteVars, connected, ghostVars>>

\* listAllSessionObjects, lines 394-431, on the object stored under the key.
ListKey(c) ==
  /\ pc[c] = "keyed"
  /\ local' = [local EXCEPT ![c].response =
                 ListingResponse(ListEntries(<<KeyObject(local[c].keyText, logPrefix)>>))]
  /\ pc' = [pc EXCEPT ![c] = "done"]
  /\ UNCHANGED <<configVars, serverVars, gatewayVars, clock, remoteVars, connected, ghostVars>>

KeyNext ==
  \/ \E c \in Calls : FormKey(c)
  \/ \E c \in Calls : ListKey(c)

KeySpec == KeyInit /\ [][KeyNext]_vars

\* ------------------------------------------------------ the config module
\* Process p has asked for the key and got it.
GotKey(p) == pc[p] = "done" /\ local[p].response.kind = "key"

\* getPrivateKey of the config module, in its two versions (README.md, lines
\* 391-409 and 615-626), called by any number of callers from the state in
\* which the module has been evaluated and nobody has asked for the key.
PrivateKeys == {"abc", "0xabc"}

KeyResponse(k) == [kind |-> "key", isError |-> FALSE, key |-> k]

\* The key that the environment provides, or none ("").  The sodium version
\* has run loadSecrets (lines 555-598): the key is in secretBuffer and the
\* variable of the environment is redacted.  The other version has read
\* privateKeyRaw from the environment (line 391).
CredentialInit ==
  /\ thoughtHistory = <<>>
  /\ branches = NoBranches
  /\ currentQuery = ""
  /\ clock = 0
  /\ currentSessionId = <<0, 0>>
  /\ bucketAddress = NullAddr
  /\ initialized = FALSE
  /\ currentSessionThoughts = <<>>
  /\ remoteBuckets = 0
  /\ remoteObjects = [k \in {} |-> <<>>]
  /\ connected = FALSE
  /\ pc = [p \in Procs |-> "idle"]
  /\ local = [p \in Procs |-> NoLocal]
  /\ logPrefix = DefaultLogPrefix
  /\ configModule \in {"env", "sodium"}
  /\ \E k \in PrivateKeys \cup {""} :
       /\ secret = k
       /\ secretLoaded = (configModule = "sodium" /\ k # "")
       /\ envKey = IF configModule = "sodium" /\ k # "" THEN "[REDACTED]" ELSE k
  /\ arrivals = <<>>
  /\ flushedAt = 0
  /\ handed = <<>>
  /\ sessionsMinted = 1
  /\ createCalls = 0
  /\ storeCalls = [c \in Calls |-> 0]
  /\ putCalls = [c \in Calls |-> 0]
  /\ dataCallsWhileNull = FALSE

\* getPrivateKey, README.md lines 393-409: privateKeyRaw is returned once,
\* set to undefined, and the variable of the environment is overwritten.
GetPrivateKeyEnv(p) ==
  /\ configModule = "env"
  /\ pc[p] = "idle"
  /\ IF secret = ""
       THEN /\ local' = [local EXCEPT ![p] =
                           [NoLocal EXCEPT !.tool = "getPrivateKey",
                                           !.response = RaisedResponse("RECALL_PRIVATE_KEY is required")]]
            /\ UNCHANGED <<secret, envKey>>
       ELSE /\ local' = [local EXCEPT ![p] =
                           [NoLocal EXCEPT !.tool = "getPrivateKey",
                                           !.response = KeyResponse(secret)]]
            /\ secret' = ""
            /\ envKey' = "[REDACTED_AFTER_USE]"
  /\ pc' = [pc EXCEPT ![p] = "done"]
  /\ UNCHANGED <<serverVars, gatewayVars, clock, remoteVars, connected, configModule,
                 secretLoaded, logPrefix, ghostVars>>

\* Mutant of GetPrivateKeySodium: the buffer is kept.
GetPrivateKeySodiumKeeps(p) ==
  /\ configModule = "sodium"
  /\ pc[p] = "idle"
  /\ local' = [local EXCEPT ![p] =
                 [NoLocal EXCEPT !.tool = "getPrivateKey",
                                 !.response = IF secret = ""
                                                THEN RaisedResponse("RECALL_PRIVATE_KEY is required but not available.")
                                                ELSE KeyResponse(secret)]]
  /\ pc' = [pc EXCEPT ![p] = "done"]
  /\ UNCHANGED <<serverVars, gatewayVars, clock, remoteVars, connected, configVars,
                 ghostVars>>

\* getPrivateKey, README.md lines 615-626: the text of secretBuffer is
\* returned once; the buffer is zeroed and dropped, secretLoaded is reset.
GetPrivateKeySodium(p) ==
  /\ configModule = "sodium"
  /\ pc[p] = "idle"
  /\ IF secret = ""
       THEN /\ local' = [local EXCEPT ![p] =
                           [NoLocal EXCEPT !.tool = "getPrivateKey",
                                           !.response = RaisedResponse("RECALL_PRIVATE_KEY is required but not available.")]]
            /\ UNCHANGED <<secret, secretLoaded>>
       ELSE /\ local' = [local EXCEPT ![p] =
                           [NoLocal EXCEPT !.tool = "getPrivateKey",
                                           !.response = KeyResponse(secret)]]
            /\ secret' = ""
            /\ secretLoaded' = FALSE
  /\ pc' = [pc EXCEPT ![p] = "done"]
  /\ UNCHANGED <<serverVars, gatewayVars, clock, remoteVars, connected, configModule,
                 envKey, logPrefix, ghostVars>>

CredentialNext ==
  \/ \E p \in Procs : GetPrivateKeyEnv(p)
  \/ \E p \in Procs : GetPrivateKeySodium(p)

CredentialSpec == CredentialInit /\ [][CredentialNext]_vars

\* ------------------------------------------------------------- the start-up
\* The evaluation of the modules in import order (part_001 lines 8-25): the
\* config module has been evaluated (loadSecrets has run), the import of
\* recall-integration.js constructs the singleton (line 524), whose
\* constructor calls getPrivateKey (line 51), and then the body of the main
\* module calls logConfigStatus (line 25).
SingletonProc == 1

ConfigStatusResponse == [kind |-> "configStatus", isError |-> FALSE]

\* validateEnv raises: README.md lines 418-429 (process.env.RECALL_PRIVATE_KEY
\* is not set) and lines 630-632 (!secretLoaded && !secretBuffer).
validateEnvRaises ==
  IF configModule = "env" THEN envKey = ""
  ELSE ~secretLoaded /\ secret = ""

StartupInit ==
  /\ thoughtHistory = <<>>
  /\ branches = NoBranches
  /\ currentQuery = ""
  /\ clock = 0
  /\ currentSessionId = <<0, 0>>
  /\ bucketAddress = NullAddr
  /\ initialized = FALSE
  /\ currentSessionThoughts = <<>>
  /\ remoteBuckets = 0
  /\ remoteObjects = [k \in {} |-> <<>>]
  /\ connected = FALSE
  /\ pc = [p \in Procs |-> IF p \in {SingletonProc, RunProc} THEN "idle" ELSE "done"]
  /\ local = [p \in Procs |-> NoLocal]
  /\ logPrefix \in LogPrefixes
  /\ configModule \in {"env", "sodium"}
  /\ \E k \in PrivateKeys \cup {""} :
       /\ secret = k
       /\ secretLoaded = (configModule = "sodium" /\ k # "")
       /\ envKey = IF configModule = "sodium" /\ k # "" THEN "[REDACTED]" ELSE k
  /\ arrivals = <<>>
  /\ flushedAt = 0
  /\ handed = <<>>
  /\ sessionsMinted = 1
  /\ createCalls = 0
  /\ storeCalls = [c \in Calls |-> 0]
  /\ putCalls = [c \in Calls |-> 0]
  /\ dataCallsWhileNull = FALSE

\* logConfigStatus (README.md lines 480-498 and 640-648), whose first
\* statement is validateEnv(); it runs when the imports have been evaluated
\* without an error (a constructor that throws ends the evaluation).
LogConfigStatus(p) ==
  /\ p = RunProc
  /\ pc[p] = "idle"
  /\ GotKey(SingletonProc)
  /\ local' = [local EXCEPT ![p] =
                 [NoLocal EXCEPT !.tool = "logConfigStatus",
                                 !.response = IF validateEnvRaises
                                                THEN RaisedResponse("Missing required RECALL_PRIVATE_KEY")
                                                ELSE ConfigStatusResponse]]
  /\ pc' = [pc EXCEPT ![p] = "done"]
  /\ UNCHANGED <<configVars, serverVars, gatewayVars, clock, remoteVars, connected, ghostVars>>

StartupNext ==
  \/ GetPrivateKeyEnv(SingletonProc)
  \/ GetPrivateKeySodium(SingletonProc)
  \/ \E p \in Procs : LogConfigStatus(p)

StartupSpec == StartupInit /\ [][StartupNext]_vars

\* ------------------------------------------------- the validator by itself
\* validateThoughtData is a pure function of its input (lines 76-103): it is
\* applied here to every input built from these values: one per JavaScript
\* type, the falsy value of each type, and a negative number.
ValidatorValues ==
  {Undef, Str(""), Str("a"), Num(0), Num(1), Num(-1), Bool(FALSE), Bool(TRUE)}

ValidatorInputs ==
  {MkArgs(th, tn, tt, ntn, Undef, Undef, Undef, Undef) :
     th \in ValidatorValues, tn \in ValidatorValues,
     tt \in ValidatorValues, ntn \in ValidatorValues}

\* What validateThoughtData returned (lines 92-102).
ValidatedResponse(v) == [kind |-> "validated", isError |-> FALSE, value |-> v]

ValidatorInit ==
  /\ ConfigAfterUse
  /\ thoughtHistory = <<>>
  /\ branches = NoBranches
  /\ currentQuery = ""
  /\ clock = 0
  /\ currentSessionId = <<0, 0>>
  /\ bucketAddress = NullAddr
  /\ initialized = FALSE
  /\ currentSessionThoughts = <<>>
  /\ remoteBuckets = 0
  /\ remoteObjects = [k \in {} |-> <<>>]
  /\ connected = FALSE
  /\ pc = [p \in Procs |-> IF p = 1 THEN "validate" ELSE "done"]
  /\ \E input \in ValidatorInputs :
       local = [p \in Procs |->
                  IF p = 1
                    THEN [NoLocal EXCEPT !.tool = "validateThoughtData", !.args = input]
                    ELSE NoLocal]
  /\ arrivals = <<>>
  /\ flushedAt = 0
  /\ handed = <<>>
  /\ sessionsMinted = 1
  /\ createCalls = 0
  /\ storeCalls = [c \in Calls |-> 0]
  /\ putCalls = [c \in Calls |-> 0]
  /\ dataCallsWhileNull = FALSE

\* validateThoughtData, lines 76-103: throws the error of the first check
\* that fails, or returns the ThoughtData.
Validate(c) ==
  /\ pc[c] = "validate"
  /\ LET r == validateThoughtData(local[c].args)
     IN local' = [local EXCEPT ![c].response =
                    IF r.ok THEN ValidatedResponse(r.value) ELSE RaisedResponse(r.error)]
  /\ pc' = [pc EXCEPT ![c] = "done"]
  /\ UNCHANGED <<configVars, serverVars, gatewayVars, clock, remoteVars, connected, ghostVars>>

ValidatorNext == \E c \in Calls : Validate(c)

ValidatorSpec == ValidatorInit /\ [][ValidatorNext]_vars


\* ================================================================== claims
Max(a, b) == IF a >= b THEN a ELSE b
Texts(thoughts) == {thoughts[i].thought : i \in 1..Len(thoughts)}
SameStep(a, b) ==
  /\ a.thought = b.thought
  /\ a.thoughtNumber = b.thoughtNumber
  /\ a.totalThoughts = b.totalThoughts
  /\ a.nextThoughtNeeded = b.nextThoughtNeeded
  /\ a.branchFromThought = b.branchFromThought
  /\ a.branchId = b.branchId
InitWaits == {"list_wait", "create_wait"}
\* A call's answer to a last thought that the validator accepted.
ClosingDone(c) ==
  /\ pc[c] = "done"
  /\ local[c].response.kind = "thought"
  /\ ~local[c].response.nextThoughtNeeded

\* C1: every batch handed to storeSession is exactly the steps accepted since
\* the last session reset (the last flush), in the order in which they were
\* accepted, whatever their thoughtNumber values.
C1_BatchIsArrivalsSinceFlush ==
  \A i \in 1..Len(handed) :
    /\ Len(handed[i].thoughts) = handed[i].upto - handed[i].from
    /\ \A j \in 1..Len(handed[i].thoughts) :
         SameStep(handed[i].thoughts[j], arrivals[handed[i].from + j])

\* C1 witness: a batch of two steps whose thoughtNumbers decrease.
C1_Witness ==
  \E i \in 1..Len(handed) :
    /\ Len(handed[i].thoughts) = 2
    /\ handed[i].thoughts[1].thoughtNumber > handed[i].thoughts[2].thoughtNumber

\* C2 (as claimed): when the only call made so far has answered a last
\* thought, the session is gone, whatever the outcome of the store was.
C2_SessionGoneAfterClosingStep ==
  \A c \in Calls :
    (ClosingDone(c) /\ \A d \in Calls \ {c} : pc[d] = "idle") =>
      /\ thoughtHistory = <<>>
      /\ branches = NoBranches
      /\ currentQuery = ""
      /\ sessionsMinted >= 2

\* C2 (amended): when processThought resumes after the store of a last
\* thought, it resets the session (empty history, empty branch index, no
\* query, a newly generated session id) if the store returned a result with
\* success = true, and leaves the session as it is otherwise.
C2_SessionResetOnSuccessOnly ==
  [][\A c \in Calls :
       (pc[c] = "p5" /\ pc'[c] = "p6") =>
         IF local[c].sessionInfo.defined /\ local[c].sessionInfo.success
           THEN /\ thoughtHistory' = <<>>
                /\ branches' = NoBranches
                /\ currentQuery' = ""
                /\ sessionsMinted' = sessionsMinted + 1
           ELSE UNCHANGED <<serverVars, sessionsMinted>>]_vars

\* C2 witness: a call has come back from a successful store and the session is reset.
C2_Witness ==
  \E c \in Calls :
    /\ pc[c] = "p6"
    /\ local[c].sessionInfo.defined /\ local[c].sessionInfo.success
    /\ thoughtHistory = <<>>
    /\ sessionsMinted = 2

\* C3 (as claimed): no accepted step is lost: each is in the in-memory
\* session or was part of a batch handed to the gateway.
C3_NoStepLost ==
  \A i \in 1..Len(arrivals) :
    \/ arrivals[i].thought \in Texts(thoughtHistory)
    \/ \E j \in 1..Len(handed) : arrivals[i].thought \in Texts(handed[j].thoughts)

\* C4: a call makes one storeSession call if it is an accepted last thought
\* and none otherwise, and a storeSession call issues at most one write
\* (a failed or timed-out write is not tried again).
C4_OneStorePerClosingStep ==
  \A c \in Calls :
    /\ storeCalls[c] <= 1
    /\ putCalls[c] <= storeCalls[c]
    /\ pc[c] = "done" => storeCalls[c] = IF ClosingDone(c) THEN 1 ELSE 0

\* C4 witness: a last thought whose write failed has been answered, after one
\* store call and one write.
C4_Witness ==
  \E c \in Calls :
    /\ ClosingDone(c)
    /\ local[c].response.recallInfo.stored
    /\ ~local[c].response.recallInfo.success
    /\ storeCalls[c] = 1
    /\ putCalls[c] = 1

\* C5: no write carries an empty batch, no object of the bucket is empty, and
\* a store that finds nothing pending returns undefined without a write.
C5_NoEmptyWrite ==
  /\ \A c \in Calls : pc[c] = "put_wait" => Len(local[c].putData) >= 1
  /\ \A k \in DOMAIN remoteObjects : Len(remoteObjects[k]) >= 1
  /\ \A c \in Calls :
       local[c].putOutcome = "empty" =>
         ~local[c].sessionInfo.defined /\ putCalls[c] = 0

\* C5 witness: a store found nothing pending.
C5_Witness ==
  \E c \in Calls : local[c].putOutcome = "empty" /\ storeCalls[c] = 1

\* C6: the totalThoughts recorded for an accepted step, and the one reported
\* in the answer, is the larger of the thoughtNumber and the totalThoughts supplied.
C6_TotalIsMax ==
  \A c \in Calls :
    (local[c].tool = "sequentialthinking" /\ validateThoughtData(local[c].args).ok) =>
      LET a == local[c].args
          want == Max(a.thoughtNumber.n, a.totalThoughts.n)
      IN
      /\ \E i \in 1..Len(arrivals) : arrivals[i].thought = a.thought.s
      /\ \A i \in 1..Len(arrivals) :
           arrivals[i].thought = a.thought.s => arrivals[i].totalThoughts = want
      /\ \A i \in 1..Len(thoughtHistory) :
           thoughtHistory[i].thought = a.thought.s => thoughtHistory[i].totalThoughts = want
      /\ local[c].response.kind \in {"building", "thought"} =>
           local[c].response.totalThoughts = want

\* C6 witness: an answered step whose thoughtNumber was above the supplied totalThoughts.
C6_Witness ==
  \E c \in Calls :
    /\ pc[c] = "done"
    /\ local[c].response.kind = "thought"
    /\ local[c].args.thoughtNumber.n > local[c].args.totalThoughts.n
    /\ local[c].response.totalThoughts = local[c].args.thoughtNumber.n

\* C7: initialized is true exactly when bucketAddress is set, and a call
\* whose bucket resolution fails or times out gets the error and leaves the
\* gateway's state as it was.
C7_NoPartialInit ==
  /\ [](initialized <=> bucketAddress # NullAddr)
  /\ [][\A c \in Calls :
          (pc[c] \in InitWaits /\ pc'[c] \notin InitWaits /\ pc'[c] # local[c].ret) =>
            /\ UNCHANGED gatewayVars
            /\ local'[c].caught]_vars

\* C7 witness: a call's resolution has failed, the gateway is uninitialized,
\* and a later call resolves the bucket again from the start.
C7_Witness ==
  \E c, d \in Calls :
    /\ local[c].caught
    /\ ~initialized /\ bucketAddress = NullAddr
    /\ pc[d] = "list_wait"

\* C8 (as claimed): create() is called at most once, and bucketAddress, once
\* set, does not change.
C8_BucketResolvedOnce ==
  /\ [](createCalls <= 1)
  /\ [][bucketAddress # NullAddr => bucketAddress' = bucketAddress]_vars

\* C9: a write that is rejected or times out does not raise: the store
\* returns a result with success = false and the key it tried to write.
C9_FailedWriteReported ==
  \A c \in Calls :
    local[c].putOutcome \in {"error", "timeout"} =>
      /\ pc[c] = "p5"
      /\ ~local[c].caught
      /\ local[c].sessionInfo.defined
      /\ ~local[c].sessionInfo.success
      /\ local[c].sessionInfo.key = local[c].putKey
      /\ local[c].putKey \in {SessionKey(t) : t \in 0..MaxTime}

\* C9 witness: a write has timed out.
C9_Witness ==
  \E c \in Calls : local[c].putOutcome = "timeout" /\ pc[c] = "p5"

\* C10 (as claimed): every call is answered with a result, and every result
\* that a catch block or the unknown-tool branch produces has isError set.
C10_FailuresFlagged ==
  \A c \in Calls :
    pc[c] = "done" =>
      /\ local[c].response.kind # "none"
      /\ local[c].response.kind \in {"error", "unhandled", "unknown", "statusError"} =>
           local[c].response.isError

\* C11 (as claimed): the answer to a last thought whose store failed, in the
\* bucket resolution or in the write, has isError set or carries
\* recallInfo.success = false.
C11_StoreFailureFlagged ==
  [][\A c \in Calls :
       (/\ pc[c] = "p6" /\ pc'[c] = "done"
        /\ ~local[c].response.nextThoughtNeeded
        /\ \/ local[c].caught
           \/ local[c].sessionInfo.defined /\ ~local[c].sessionInfo.success)
       => \/ local'[c].response.isError
          \/ IF local'[c].response.recallInfo.stored
               THEN ~local'[c].response.recallInfo.success
               ELSE FALSE]_vars

\* C12 (as claimed): the recallInfo of an answer has stored = false when the
\* thought is not the last, and stored = true with a key and a viewUrl when it is.
C12_StoredOnClosingStep ==
  \A c \in Calls :
    (pc[c] = "done" /\ local[c].response.kind = "thought") =>
      LET info == local[c].response.recallInfo IN
      IF local[c].response.nextThoughtNeeded
        THEN ~info.stored
        ELSE IF info.stored
               THEN info.key # "" /\ info.viewUrl = <<bucketAddress, info.key>>
               ELSE FALSE

\* C13 (as claimed): listAllSessionObjects never raises: it returns an array
\* in every gateway state and for every outcome of the remote calls it makes.
C13_ListNeverRaises ==
  \A c \in Calls :
    (pc[c] = "done" /\ local[c].tool = "listAllSessionObjects") =>
      local[c].response.kind = "sessions"

\* C13 (amended): listAllSessionObjects rejects exactly when the bucket
\* resolution it had to start failed or timed out; in every other case it
\* returns an array, the empty one when query fails.
C13_ListRaisesOnlyFailedInit ==
  \A c \in Calls :
    (pc[c] = "done" /\ local[c].tool = "listAllSessionObjects") =>
      IF local[c].caught
        THEN local[c].response.kind = "raised"
        ELSE /\ local[c].response.kind = "sessions"
             /\ local[c].putOutcome = "readError" => local[c].response.sessions = {}

\* C13 witness: one call was rejected because the resolution failed, the
\* next one resolved the bucket and got the empty array when query failed
\* although the bucket holds an object.
C13_Witness ==
  \E c, d \in Calls :
    /\ pc[c] = "done" /\ local[c].tool = "listAllSessionObjects"
    /\ local[c].response.kind = "raised"
    /\ pc[d] = "done" /\ local[d].tool = "listAllSessionObjects"
    /\ local[d].response.kind = "sessions" /\ local[d].putOutcome = "readError"
    /\ local[d].response.sessions = {}
    /\ DOMAIN remoteObjects # {}

\* C14 (as claimed): getSessionObject returns null, and does not raise,
\* whenever no object is under the key or the fetch fails, in every gateway
\* state; the getsession tool then answers not found.
C14_GetNullNeverRaises ==
  \A c \in Calls :
    (/\ pc[c] = "done"
     /\ \/ local[c].args.key.s \notin DOMAIN remoteObjects
        \/ local[c].putOutcome = "readError") =>
      /\ local[c].tool = "getSessionObject" => local[c].response.kind = "null"
      /\ (local[c].tool = "getsession" /\ Truthy(local[c].args.key) /\ ~local[c].caught) =>
           local[c].response = ErrorResponse("Session file not found")

\* C14 (amended): getSessionObject rejects exactly when the bucket resolution
\* it had to start failed or timed out; otherwise it returns null whenever
\* no object is under the key or the fetch fails.  The getsession tool
\* answers every one of these with an error payload: not found for a null,
\* the error of the resolution when the resolution failed.
C14_GetNullUnlessFailedInit ==
  \A c \in Calls :
    pc[c] = "done" =>
      /\ local[c].tool = "getSessionObject" =>
           IF local[c].caught
             THEN local[c].response.kind = "raised"
             ELSE /\ local[c].response.kind \in {"null", "session"}
                  /\ (\/ local[c].args.key.s \notin DOMAIN remoteObjects
                      \/ local[c].putOutcome = "readError") => local[c].response.kind = "null"
      /\ (local[c].tool = "getsession" /\ Truthy(local[c].args.key)) =>
           IF local[c].caught
             THEN local[c].response.kind = "error"
             ELSE /\ local[c].response.kind \in {"error", "session"}
                  /\ (\/ local[c].args.key.s \notin DOMAIN remoteObjects
                      \/ local[c].putOutcome = "readError") =>
                       local[c].response = ErrorResponse("Session file not found")

\* C14 witness: a getSessionObject call was rejected because the resolution
\* failed, and the getsession tool answered not found for a key without object.
C14_Witness ==
  \E c, d \in Calls :
    /\ pc[c] = "done" /\ local[c].tool = "getSessionObject"
    /\ local[c].response.kind = "raised"
    /\ pc[d] = "done" /\ local[d].tool = "getsession" /\ ~local[d].caught
    /\ local[d].args.key.s \notin DOMAIN remoteObjects
    /\ local[d].response = ErrorResponse("Session file not found")

\* The answer of a getSessionObject call that no later call has followed, so
\* that the object is still the one it read.
GotSession(c) ==
  /\ pc[c] = "done"
  /\ local[c].tool = "getSessionObject"
  /\ local[c].response.kind = "session"
  /\ \A d \in Calls : d > c => pc[d] = "idle"

\* Position i of the answer is what line i is: the parsed value, or an error
\* object for a line that does not parse.
AnswersLines(thoughts, lines) ==
  /\ Len(thoughts) = Len(lines)
  /\ \A i \in 1..Len(lines) :
       IF lines[i].json
         THEN thoughts[i].parsed /\ thoughts[i].value = lines[i].value
         ELSE ~thoughts[i].parsed /\ thoughts[i].error # ""

\* The lines of a record: the pieces of the content between newlines, where
\* a newline that ends the content ends the last line and starts no new one.
RecordLines(lines) ==
  IF Len(lines) > 1 /\ lines[Len(lines)] = BlankLine
    THEN SubSeq(lines, 1, Len(lines) - 1)
    ELSE lines

\* C15 (as claimed): for an object of L lines, getSessionObject returns
\* thoughtCount = L, an error object at the positions of the lines that do
\* not parse and the parsed step at every other position.
C15_EveryLineAnswered ==
  \A c \in Calls :
    GotSession(c) =>
      LET content == local[c].response.content
          lines == RecordLines(remoteObjects[local[c].args.key.s])
      IN
      /\ content.thoughtCount = Len(lines)
      /\ AnswersLines(content.thoughts, lines)

\* C16: the data written for a batch of N steps has N lines, line i is the
\* JSON text of step i, and a step without text is written with the text
\* "Thought i (content missing)", i counted from 1.
C16_OneLinePerStep ==
  \A c \in Calls :
    (pc[c] = "put_wait" /\ local[c].tool = "storeSession") =>
      LET batch == local[c].thoughtsToStore
          data == local[c].putData
      IN
      /\ Len(data) = Len(batch)
      /\ \A i \in 1..Len(batch) :
           /\ data[i].json
           /\ data[i].value[1].thought =
                IF batch[i].thought = ""
                  THEN "Thought " \o ToString(i) \o " (content missing)"
                  ELSE batch[i].thought
           /\ data[i].value[1].thoughtNumber = batch[i].thoughtNumber
           /\ data[i].value[1].totalThoughts = batch[i].totalThoughts
           /\ data[i].value[1].nextThoughtNeeded = batch[i].nextThoughtNeeded
           /\ data[i].value[1].sessionId = batch[i].sessionId

\* C16 witness: a batch of two steps, the second without text, is being written.
C16_Witness ==
  \E c \in Calls :
    /\ pc[c] = "put_wait" /\ local[c].tool = "storeSession"
    /\ Len(local[c].thoughtsToStore) = 2
    /\ local[c].thoughtsToStore[1].thought = "a"
    /\ local[c].thoughtsToStore[2].thought = ""
    /\ local[c].putData[1].value[1].thought = "a"
    /\ local[c].putData[2].value[1].thought = "Thought 2 (content missing)"

\* C17: the validator fails with the error naming the first field, in the
\* order thought, thoughtNumber, totalThoughts, nextThoughtNeeded, that is
\* absent or of the wrong type, and otherwise returns the same four values.
\* A field is absent when the presence test of the code rejects it: it is
\* undefined, the empty text or the number zero (a step's text is a
\* non-empty string and its numbers are positive).
Offends(field, v) ==
  CASE field = "thought" -> v.type # "string" \/ v.s = ""
    [] field \in {"thoughtNumber", "totalThoughts"} -> v.type # "number" \/ v.n = 0
    [] OTHER -> v.type # "boolean"

CheckedFields == <<"thought", "thoughtNumber", "totalThoughts", "nextThoughtNeeded">>

ExpectedType(field) ==
  CASE field = "thought" -> "a string"
    [] field = "nextThoughtNeeded" -> "a boolean"
    [] OTHER -> "a number"

IsFirstOffender(args, i) ==
  /\ Offends(CheckedFields[i], args[CheckedFields[i]])
  /\ \A j \in 1..(i - 1) : ~Offends(CheckedFields[j], args[CheckedFields[j]])

C17_FirstOffendingFieldNamed ==
  \A c \in Calls :
    (pc[c] = "done" /\ local[c].tool = "validateThoughtData") =>
      LET args == local[c].args
          resp == local[c].response
      IN /\ \A i \in 1..4 :
              IsFirstOffender(args, i) =>
                /\ resp.kind = "raised"
                /\ resp.error = "Invalid " \o CheckedFields[i] \o ": must be "
                                   \o ExpectedType(CheckedFields[i])
         /\ (\A i \in 1..4 : ~Offends(CheckedFields[i], args[CheckedFields[i]])) =>
              /\ resp.kind = "validated"
              /\ Str(resp.value.thought) = args.thought
              /\ Num(resp.value.thoughtNumber) = args.thoughtNumber
              /\ Num(resp.value.totalThoughts) = args.totalThoughts
              /\ Bool(resp.value.nextThoughtNeeded) = args.nextThoughtNeeded

\* C17 witness: the input lacks thought and has a text as thoughtNumber; the
\* error names thought.
C17_Witness ==
  \E c \in Calls :
    /\ pc[c] = "done" /\ local[c].tool = "validateThoughtData"
    /\ local[c].args.thought = Undef
    /\ local[c].args.thoughtNumber = Str("a")
    /\ local[c].response.kind = "raised"
    /\ local[c].response.error = "Invalid thought: must be a string"

\* C18: a sequentialthinking call that validation rejects changes nothing:
\* the history, the branches, the query and the session id stay as they
\* are, nothing is asked of the remote, no store is started, and the answer
\* is an error payload.
RejectedByValidation(args) ==
  /\ args.thought.type = "string"
  /\ \E i \in 1..4 : Offends(CheckedFields[i], args[CheckedFields[i]])

C18_RejectedCallChangesNothing ==
  [][\A c \in Calls :
       (/\ pc[c] = "idle" /\ pc'[c] # "idle"
        /\ local'[c].tool = "sequentialthinking"
        /\ RejectedByValidation(local'[c].args)) =>
         /\ UNCHANGED <<thoughtHistory, branches, currentQuery, currentSessionId>>
         /\ UNCHANGED <<gatewayVars, remoteVars, arrivals, flushedAt, handed,
                        sessionsMinted, createCalls, storeCalls, putCalls>>
         /\ pc'[c] = "done"
         /\ local'[c].response.kind = "error"
         /\ local'[c].response.isError]_vars

\* C18 witness: a call with an empty thought, a branch and a query of its own
\* was rejected while the session held a step, and the session has no query.
C18_Witness ==
  \E c \in Calls :
    /\ pc[c] = "done" /\ local[c].tool = "sequentialthinking"
    /\ RejectedByValidation(local[c].args)
    /\ Truthy(local[c].args.query)
    /\ local[c].response.isError
    /\ Len(thoughtHistory) = 1
    /\ currentQuery = ""
    /\ storeCalls[c] = 0

\* C19: the query of the session is the first one that a step accepted since
\* the last reset has supplied; once set it changes only when the session is
\* reset; and every stored record carries, on each of its lines, the first
\* query supplied among the steps of the batch it was made from (the
\* default text when no step supplied one).
FirstQuery(from, upto) ==
  LET supplied == {j \in (from + 1)..upto : Truthy(arrivals[j].query)} IN
  IF supplied = {} THEN ""
  ELSE arrivals[CHOOSE j \in supplied : \A l \in supplied : j <= l].query.s

C19_QueryFirstWriterWins ==
  /\ [](currentQuery = FirstQuery(flushedAt, Len(arrivals)))
  /\ [][currentQuery # "" =>
          \/ currentQuery' = currentQuery
          \/ /\ currentQuery' = ""
             /\ thoughtHistory' = <<>>
             /\ sessionsMinted' = sessionsMinted + 1]_vars
  /\ [](\A k \in DOMAIN remoteObjects :
          \E i \in 1..Len(handed) :
            /\ Len(remoteObjects[k]) = Len(handed[i].thoughts)
            /\ \A j \in 1..Len(remoteObjects[k]) :
                 /\ remoteObjects[k][j].json
                 /\ remoteObjects[k][j].value[1].thought = handed[i].thoughts[j].thought
                 /\ remoteObjects[k][j].value[1].query =
                      QueryOrDefault(FirstQuery(handed[i].from, handed[i].upto)))

\* C19 witness: two accepted steps supplied different queries, the session
\* kept the first, and a stored record of both steps carries the first.
C19_Witness ==
  /\ Len(arrivals) = 2
  /\ Truthy(arrivals[1].query) /\ Truthy(arrivals[2].query)
  /\ arrivals[1].query # arrivals[2].query
  /\ \E k \in DOMAIN remoteObjects :
       /\ Len(remoteObjects[k]) = 2
       /\ \A j \in 1..2 : remoteObjects[k][j].value[1].query = arrivals[1].query.s

\* C20 (as claimed): two stores that succeeded wrote under distinct keys, so
\* the bucket lists one object for each of them.
StoredOk(c) ==
  /\ ClosingDone(c)
  /\ local[c].response.recallInfo.stored
  /\ local[c].response.recallInfo.success

C20_DistinctKeys ==
  \A c, d \in Calls :
    (c # d /\ StoredOk(c) /\ StoredOk(d)) =>
      /\ local[c].response.recallInfo.key # local[d].response.recallInfo.key
      /\ Cardinality(DOMAIN remoteObjects) >= 2

\* C21 (as claimed): every storeSession, listAllSessionObjects and
\* getSessionObject call that was made returns at last, with a result or an
\* error, also when the remote answers none of the requests.
C21_GatewayCallsComplete ==
  \A c \in Calls :
    (pc[c] # "idle" /\ local[c].tool \in GatewayMethods) ~> (pc[c] = "done")

\* C22 (as claimed): what a store call hands to the remote is the batch that
\* was passed to that call, line for line, whatever other store calls do at
\* the awaits in between; and no step of the gateway touches thoughtHistory.
EncodesBatch(data, batch) ==
  /\ Len(data) = Len(batch)
  /\ \A j \in 1..Len(data) :
       /\ data[j].json
       /\ data[j].value[1].thought =
            (IF batch[j].thought = "" THEN Placeholder(j) ELSE batch[j].thought)
       /\ data[j].value[1].thoughtNumber = batch[j].thoughtNumber
       /\ data[j].value[1].sessionId = batch[j].sessionId

C22_WritesOwnBatch ==
  \A c \in Calls :
    pc[c] = "put_wait" => EncodesBatch(local[c].putData, local[c].thoughtsToStore)

\* C23: the client sends A (1 of 3), B (2 of 3) and the last step C (4 of 3)
\* in turn, and the remote accepts the write.
\* The third step has been answered, and its store succeeded.
ThirdStored ==
  /\ Len(arrivals) = 3 /\ pc[1] = "done"
  /\ local[1].response.recallInfo.stored
  /\ local[1].response.recallInfo.success

\* What holds then: total 4 for the third step, one store of A, B, C in this
\* order, one write, a session id minted, and no step left in memory.
ThirdStoredOutcome ==
  /\ local[1].response.totalThoughts = 4
  /\ arrivals[3].totalThoughts = 4
  /\ Len(handed) = 1 /\ storeCalls[1] = 1 /\ putCalls[1] = 1
  /\ [j \in 1..Len(handed[1].thoughts) |-> handed[1].thoughts[j].thought] = <<"A", "B", "C">>
  /\ handed[1].thoughts[3].totalThoughts = 4
  /\ \A k \in DOMAIN remoteObjects :
       [j \in 1..Len(remoteObjects[k]) |-> remoteObjects[k][j].value[1].thought] = <<"A", "B", "C">>
  /\ sessionsMinted = 2
  /\ thoughtHistory = <<>>
  /\ local[1].response.thoughtHistoryLength = 0

\* The step sent after the flush has been answered.
FollowUpAnswered ==
  /\ Len(arrivals) = 4 /\ flushedAt = 3 /\ pc[1] = "done"

\* C23 (as claimed): ... and the call that follows the flush reports 0 steps
\* in memory (when it only adds its step, or stores with success).
C23_ScenarioFollowUpReportsZero ==
  /\ ThirdStored => ThirdStoredOutcome
  /\ (/\ FollowUpAnswered
      /\ \/ local[1].response.nextThoughtNeeded
         \/ /\ local[1].response.recallInfo.stored
            /\ local[1].response.recallInfo.success) =>
       local[1].response.thoughtHistoryLength = 0

\* C23 (amended): ... the answer to the third step reports 0 steps in
\* memory; a following step that is not a last one reports 1, itself.
C23_Scenario ==
  /\ ThirdStored => ThirdStoredOutcome
  /\ (FollowUpAnswered /\ local[1].response.nextThoughtNeeded) =>
       /\ local[1].response.thoughtHistoryLength = 1
       /\ local[1].response.recallInfo.thoughtsInMemory = 1
       /\ thoughtHistory[1].thought = "D1"

\* C23 witness: the three steps are stored as one object of three lines and
\* the following step D has been answered.
C23_Witness ==
  /\ FollowUpAnswered
  /\ local[1].response.nextThoughtNeeded
  /\ local[1].response.thoughtHistoryLength = 1
  /\ \E k \in DOMAIN remoteObjects : Len(remoteObjects[k]) = 3
  /\ sessionsMinted = 2

\* C24 (as claimed): the gateway holds no pending thoughts whenever no store
\* call is in progress, also after a store whose write failed or timed out.
StoreInProgress(c) == local[c].tool = "storeSession" /\ pc[c] \notin {"idle", "done"}

C24_NoPendingOutsideStore ==
  (\A c \in Calls : ~StoreInProgress(c)) => Len(currentSessionThoughts) = 0

\* C24 (amended): a write that fails or times out leaves the gateway's
\* pending thoughts as they are: the batch of the call.  Until a later store
\* call replaces them the count of pending thoughts is the size of that
\* batch; it is 0 after a store whose write was accepted.
LastStore(c) ==
  /\ local[c].tool = "storeSession"
  /\ \A d \in Calls : d > c => local[d].tool # "storeSession"

C24_FailedWriteKeepsBatch ==
  \A c \in Calls :
    LastStore(c) =>
      /\ (pc[c] = "p5" /\ local[c].putOutcome \in {"error", "timeout"}) =>
           /\ currentSessionThoughts =
                EnhanceThoughts(local[c].thoughtsToStore, local[c].queryInfo)
           /\ Len(currentSessionThoughts) = Len(local[c].thoughtsToStore)
           /\ Len(currentSessionThoughts) >= 1
      /\ (pc[c] = "done" /\ local[c].response.kind = "stored"
          /\ local[c].response.info.defined) =>
           IF local[c].response.info.success
             THEN Len(currentSessionThoughts) = 0
             ELSE Len(currentSessionThoughts) >= 1

\* C24 witness: the first store wrote its batch, the second one's write
\* failed and the gateway holds the two thoughts of its batch.
C24_Witness ==
  \E c, d \in Calls :
    /\ c < d
    /\ pc[c] = "done" /\ local[c].response.kind = "stored"
    /\ local[c].response.info.defined /\ local[c].response.info.success
    /\ pc[d] = "done" /\ local[d].response.kind = "stored"
    /\ local[d].response.info.defined /\ ~local[d].response.info.success
    /\ Len(currentSessionThoughts) = 2

\* C25: when add resolves, the store returns success = true with the key it
\* wrote; txHash is the transaction hash of the receipt when the result has
\* one, and undefined (the empty text here) when it has none.
C25_ReceiptOptional ==
  \A c \in Calls :
    local[c].putOutcome = "ok" =>
      /\ pc[c] = "p5"
      /\ local[c].sessionInfo.defined
      /\ local[c].sessionInfo.success
      /\ local[c].sessionInfo.key = local[c].putKey
      /\ local[c].putKey \in DOMAIN remoteObjects
      /\ local[c].sessionInfo.txHash = local[c].receipt

\* C25 witness: a write was accepted without a receipt.
C25_Witness ==
  \E c \in Calls :
    /\ local[c].putOutcome = "ok" /\ local[c].receipt = ""
    /\ local[c].sessionInfo.success /\ local[c].sessionInfo.txHash = ""

\* C26 (as claimed): an object whose metadata carries a timestamp is listed
\* with that timestamp; the key is used only when the metadata carries none.
Listed(c) ==
  /\ pc[c] = "done" /\ local[c].tool = "listAllSessionObjects"
  /\ local[c].response.kind = "listing"

KeptObjects(c) == SelectSeq(local[c].queryResult, HoldsPrefix)

C26_MetadataTimestampKept ==
  \A c \in Calls :
    Listed(c) =>
      /\ Len(local[c].response.entries) = Len(KeptObjects(c))
      /\ \A j \in 1..Len(KeptObjects(c)) :
           local[c].response.entries[j].timestamp =
             (IF KeptObjects(c)[j].metaTimestamp # Undef
                THEN KeptObjects(c)[j].metaTimestamp
                ELSE KeptObjects(c)[j].epoch)

\* C26 (amended): an object whose key has an epoch segment is listed with
\* the timestamp of the key, whatever its metadata says; the timestamp of
\* the metadata is returned only when the key gives none.
C26_KeyTimestampWins ==
  \A c \in Calls :
    Listed(c) =>
      /\ Len(local[c].response.entries) = Len(KeptObjects(c))
      /\ \A j \in 1..Len(KeptObjects(c)) :
           local[c].response.entries[j].timestamp =
             (IF KeptObjects(c)[j].epoch # Undef
                THEN KeptObjects(c)[j].epoch
                ELSE KeptObjects(c)[j].metaTimestamp)

\* C26 witness: an object with timestamp 7 in its metadata and 1 in its key
\* is listed with 1, one with a timestamp in the metadata only with that.
C26_Witness ==
  \E c \in Calls :
    /\ Listed(c)
    /\ local[c].queryResult =
         <<ListedObject(TRUE, Num(1), Num(7)), ListedObject(TRUE, Undef, Num(7))>>
    /\ local[c].response.entries[1].timestamp = Num(1)
    /\ local[c].response.entries[2].timestamp = Num(7)

\* C27 (as claimed): the branch index holds, for every branchId, the steps
\* of the session that carry this branchId, in the order of the session.
BranchIds == {"b1", "b2"}

CarriesId(t, id) == t.branchId = Str(id)

BranchedTo(t, id) == t.branchId = Str(id) /\ Truthy(t.branchFromThought)

IndexOf(id) == IF id \in DOMAIN branches THEN branches[id] ELSE <<>>

C27_IndexIsStepsCarryingId ==
  /\ DOMAIN branches \subseteq BranchIds
  /\ \A id \in BranchIds :
       LET Carries(t) == CarriesId(t, id)
       IN  IndexOf(id) = SelectSeq(thoughtHistory, Carries)

\* C27 (amended): the branch index holds, for every branchId, the steps of
\* the session that carry this branchId together with a branchFromThought,
\* in the order of the session; a step with a branchId alone is in no branch.
C27_IndexIsBranchedSteps ==
  /\ DOMAIN branches \subseteq BranchIds
  /\ \A id \in BranchIds :
       LET Branched(t) == BranchedTo(t, id)
       IN  /\ IndexOf(id) = SelectSeq(thoughtHistory, Branched)
           /\ id \in DOMAIN branches <=> \E j \in 1..Len(thoughtHistory) : Branched(thoughtHistory[j])

\* C27 witness: the session holds a step with the branchId b1 alone and,
\* after it, a step branching to b1; the index of b1 holds the second only.
C27_Witness ==
  /\ Len(thoughtHistory) = 2
  /\ CarriesId(thoughtHistory[1], "b1") /\ ~BranchedTo(thoughtHistory[1], "b1")
  /\ BranchedTo(thoughtHistory[2], "b1")
  /\ IndexOf("b1") = <<thoughtHistory[2]>>

\* C28: getPrivateKey gives the key at most once: a call made after a call
\* that got the key fails, and from then on neither the module nor the
\* variable of the environment holds the key.
C28_KeyYieldedOnce ==
  /\ [](\A p, q \in Procs : (GotKey(p) /\ GotKey(q)) => p = q)
  /\ [](\A p \in Procs :
          GotKey(p) => /\ local[p].response.key \in PrivateKeys
                       /\ secret = "" /\ ~secretLoaded
                       /\ envKey \notin PrivateKeys)
  /\ [][\A p, q \in Procs :
          (GotKey(p) /\ pc[q] = "idle" /\ pc'[q] = "done") =>
            local'[q].response.kind = "raised"]_vars

\* C28 witness: one caller has the key, the next one was refused.
C28_Witness ==
  \E p, q \in Procs :
    /\ GotKey(p)
    /\ pc[q] = "done" /\ local[q].response.kind = "raised"
    /\ secret = ""

\* C29 (as claimed): a step that the validator accepts has a thoughtNumber
\* and a totalThoughts that are positive; zero and negative numbers are
\* rejected.
C29_AcceptedNumbersPositive ==
  \A c \in Calls :
    (pc[c] = "done" /\ local[c].tool = "validateThoughtData") =>
      /\ local[c].response.kind = "validated" =>
           /\ local[c].response.value.thoughtNumber >= 1
           /\ local[c].response.value.totalThoughts >= 1
      /\ (\E f \in {"thoughtNumber", "totalThoughts"} :
            local[c].args[f].type = "number" /\ local[c].args[f].n <= 0) =>
           local[c].response.kind = "raised"

\* Ready: the gateway holds a resolved bucket (initializeBucket, line 130).
Ready == initialized /\ bucketAddress # NullAddr

\* C30: Ready is absorbing.  Once the gateway is initialized it stays
\* initialized, and a store, list or get call that is not already resolving
\* the bucket when the gateway is Ready never waits for list() or create():
\* only resolutions begun before Ready call create().
C30_ReadyAbsorbing ==
  /\ [][Ready => Ready']_vars
  /\ [][\A p \in Procs :
          (Ready /\ pc[p] \notin InitWaits) => pc'[p] \notin InitWaits]_vars
  /\ [][(Ready /\ createCalls' # createCalls) =>
          \E p \in Procs : pc[p] \in InitWaits /\ pc'[p] # pc[p]]_vars

\* C30 witness: a store went past initialization without failing, so the
\* gateway was Ready when it returned; a list or get call made after it has
\* been answered without failing too, and the gateway is still Ready.
C30_Witness ==
  \E c, d \in Calls :
    /\ c < d
    /\ pc[c] = "done" /\ local[c].tool = "storeSession" /\ ~local[c].caught
    /\ pc[d] = "done" /\ ~local[d].caught
    /\ local[d].tool \in {"listAllSessionObjects", "getSessionObject"}
    /\ Ready

\* A key has been formed by the store and listed.
KeyListed(c) == pc[c] = "done" /\ local[c].tool = "storeSessionJSONL"

\* C31 (as claimed): whatever the configured prefix, the listing of an object
\* stored under <prefix><epochMillis>-session.jsonl carries the timestamp
\* epochMillis that the store put in the key.
C31_KeyTimestampRoundTrip ==
  \A c \in Calls :
    KeyListed(c) =>
      /\ Len(local[c].response.entries) = 1
      /\ local[c].response.entries[1].timestamp = Num(local[c].keyTime)

\* C32: no add, get or query call is issued while bucketAddress is null.
C32_NoDataCallWhileNull ==
  /\ ~dataCallsWhileNull
  /\ \A c \in Calls : pc[c] \in {"put_wait", "query_wait", "get_wait"} => Ready

\* C32 witness: a call has failed to resolve the bucket and has issued no
\* write, and a later call waits for its write to the resolved bucket.
C32_Witness ==
  \E c, d \in Calls :
    /\ pc[c] = "done" /\ local[c].caught /\ putCalls[c] = 0
    /\ pc[d] = "put_wait" /\ putCalls[d] = 1
    /\ bucketAddress # NullAddr

\* Call c carries a valid step that asks for a next one.
ContinuingStep(c) ==
  /\ local[c].tool = "sequentialthinking"
  /\ local[c].args \in ValidThoughtArgs(c)
  /\ local[c].args.nextThoughtNeeded.b

RemoteWaits == InitWaits \cup {"put_wait", "query_wait", "get_wait"}

\* C33: a valid step that asks for a next one is accepted and appended to
\* the history whatever the state of the gateway, its call never waits for
\* the remote and hands nothing to the store, and its answer is no error.
C33_ContinuingStepIsLocal ==
  /\ [](\A c \in Calls :
          ContinuingStep(c) =>
            /\ pc[c] \in {"p6", "done"}
            /\ storeCalls[c] = 0 /\ putCalls[c] = 0
            /\ ~local[c].caught
            /\ pc[c] = "done" =>
                 /\ local[c].response.kind = "thought"
                 /\ ~local[c].response.isError)
  /\ [][\A c \in Calls :
          (pc[c] = "idle" /\ pc'[c] # "idle" /\ ContinuingStep(c)') =>
            /\ Len(thoughtHistory') = Len(thoughtHistory) + 1
            /\ SubSeq(thoughtHistory', 1, Len(thoughtHistory)) = thoughtHistory
            /\ thoughtHistory'[Len(thoughtHistory')].thought = local'[c].args.thought.s
            /\ thoughtHistory'[Len(thoughtHistory')].nextThoughtNeeded
            /\ UNCHANGED <<gatewayVars, remoteVars, createCalls>>]_vars

\* C33 witness: both start-up resolutions have failed, the gateway is
\* uninitialized, and a continuing step has been answered after being
\* appended behind an earlier step.
C33_Witness ==
  \E c \in Calls :
    /\ \A p \in Procs \ Calls : pc[p] = "done"
    /\ ~initialized /\ bucketAddress = NullAddr
    /\ ContinuingStep(c) /\ pc[c] = "done"
    /\ Len(thoughtHistory) >= 2
    /\ thoughtHistory[Len(thoughtHistory)].thought = local[c].args.thought.s

\* C34 (as claimed): an answer to a step reports recallInfo.stored = true
\* only when the store result has success = true.
C34_StoredMeansAccepted ==
  \A c \in Calls :
    (/\ pc[c] = "done"
     /\ local[c].response.kind = "thought"
     /\ local[c].response.recallInfo.stored)
    => local[c].response.recallInfo.success

\* The lines of a record that hold a step with nextThoughtNeeded = false.
ClosingLines(lines) ==
  {i \in 1..Len(lines) : lines[i].json /\ ~lines[i].value[1].nextThoughtNeeded}

\* C35 (as claimed): every record on the remote holds exactly one step with
\* nextThoughtNeeded = false, and that step is its last line.
C35_OneClosingStepLast ==
  \A k \in DOMAIN remoteObjects :
    ClosingLines(remoteObjects[k]) = {Len(remoteObjects[k])}

\* The objects of the remote bucket that hold a line for accepted step i.
ObjectsHolding(i) ==
  {k \in DOMAIN remoteObjects :
     \E j \in 1..Len(remoteObjects[k]) :
       /\ remoteObjects[k][j].json
       /\ remoteObjects[k][j].value[1].thought = arrivals[i].thought}

\* C36 (as claimed): every accepted step is in at most one object of the
\* remote bucket, whatever the outcomes of the stores.
C36_StepInAtMostOneObject ==
  \A i \in 1..Len(arrivals) : Cardinality(ObjectsHolding(i)) <= 1

\* Call d has got the object stored by the call before it.
GotStored(d) ==
  /\ d > 1 /\ StoreSucceeded(d - 1)
  /\ pc[d] = "done" /\ local[d].tool = "getSessionObject"
  /\ local[d].response.kind = "session"

\* Line j of what call d got is step j of the batch, with the text txt.
SameAsBatch(d, j, txt) ==
  LET line == local[d].response.content.thoughts[j]
      step == local[d - 1].thoughtsToStore[j]
  IN /\ line.parsed
     /\ line.value[1].thought = txt
     /\ line.value[1].thoughtNumber = step.thoughtNumber
     /\ line.value[1].totalThoughts = step.totalThoughts
     /\ line.value[1].nextThoughtNeeded = step.nextThoughtNeeded

\* C37 (as claimed): a get of the key of a successful store of N steps
\* returns N steps that carry the text, the numbers and the flag of the
\* steps of the batch, in their order, and no error placeholder.
C37_RoundTripExact ==
  \A d \in Calls :
    GotStored(d) =>
      /\ local[d].response.content.thoughtCount = Len(local[d - 1].thoughtsToStore)
      /\ \A j \in 1..Len(local[d - 1].thoughtsToStore) :
           SameAsBatch(d, j, local[d - 1].thoughtsToStore[j].thought)

\* C37 (amended): the same, but a step whose text is empty comes back with
\* the text "Thought j (content missing)", j its position in the batch.
C37_RoundTripWithPlaceholder ==
  \A d \in Calls :
    GotStored(d) =>
      /\ local[d].response.content.thoughtCount = Len(local[d - 1].thoughtsToStore)
      /\ Len(local[d].response.content.thoughts) = Len(local[d - 1].thoughtsToStore)
      /\ \A j \in 1..Len(local[d - 1].thoughtsToStore) :
           SameAsBatch(d, j, IF local[d - 1].thoughtsToStore[j].thought = ""
                            THEN "Thought " \o ToString(j) \o " (content missing)"
                            ELSE local[d - 1].thoughtsToStore[j].thought)

\* C37 witness: a batch of two different steps, the second with an empty
\* text, has been stored and got back.
C37_Witness ==
  \E d \in Calls :
    /\ GotStored(d)
    /\ Len(local[d - 1].thoughtsToStore) = 2
    /\ local[d - 1].thoughtsToStore[1].thought = "a"
    /\ local[d - 1].thoughtsToStore[2].thought = ""
    /\ local[d - 1].thoughtsToStore[1].thoughtNumber # local[d - 1].thoughtsToStore[2].thoughtNumber
    /\ local[d].response.content.thoughtCount = 2

\* C38: every step of the history has totalThoughts >= thoughtNumber, and so
\* has every step handed to the gateway, pending there, in a write under way
\* and in an object of the remote bucket.
C38_TotalCoversNumber ==
  /\ \A i \in 1..Len(thoughtHistory) :
       thoughtHistory[i].totalThoughts >= thoughtHistory[i].thoughtNumber
  /\ \A i \in 1..Len(currentSessionThoughts) :
       currentSessionThoughts[i].totalThoughts >= currentSessionThoughts[i].thoughtNumber
  /\ \A c \in Calls :
       /\ \A i \in 1..Len(local[c].thoughtsToStore) :
            local[c].thoughtsToStore[i].totalThoughts >= local[c].thoughtsToStore[i].thoughtNumber
       /\ \A i \in 1..Len(local[c].putData) :
            local[c].putData[i].json =>
              local[c].putData[i].value[1].totalThoughts >= local[c].putData[i].value[1].thoughtNumber
  /\ \A k \in DOMAIN remoteObjects :
       \A j \in 1..Len(remoteObjects[k]) :
         remoteObjects[k][j].json =>
           remoteObjects[k][j].value[1].totalThoughts >= remoteObjects[k][j].value[1].thoughtNumber

\* C38 witness: a step that arrived with thoughtNumber above totalThoughts
\* is in the history and, widened, in an object of the remote bucket.
C38_Witness ==
  \E c \in Calls, k \in DOMAIN remoteObjects :
  \E j \in 1..Len(remoteObjects[k]) :
    /\ local[c].tool = "sequentialthinking"
    /\ local[c].args \in ValidThoughtArgs(c)
    /\ local[c].args.thoughtNumber.n > local[c].args.totalThoughts.n
    /\ remoteObjects[k][j].value[1].thought = local[c].args.thought.s
    /\ remoteObjects[k][j].value[1].totalThoughts = local[c].args.thoughtNumber.n
    /\ \E i \in 1..Len(thoughtHistory) : thoughtHistory[i].thought = local[c].args.thought.s

\* C39 (as claimed): when the singleton's constructor has got the key, the
\* logConfigStatus call of the main module returns without raising.
C39_StartupCompletes ==
  (GotKey(SingletonProc) /\ pc[RunProc] = "done") =>
    local[RunProc].response.kind = "configStatus"

====
